---- MODULE Spec2Model ----
(***************************************************************************)
(* A model of the metadata core of swxsoc: the update/overwrite policy of  *)
(* SWXData (swxdata.py), the type inference, attribute templates and       *)
(* attribute derivation of SWXSchema (util/schema.py), the attribute       *)
(* conversion of CDFHandler (util/io.py) and the validator.                *)
(*                                                                         *)
(* Python values are modelled as follows.  None is the string "None".      *)
(* A dict is a function whose DOMAIN is the set of its keys.  A            *)
(* (value, comment) tuple stored by SWXData is the TLA+ tuple <<v, c>>,    *)
(* so entry[1] is Python's entry[0].                                       *)
(***************************************************************************)
EXTENDS Integers, Sequences, FiniteSets, TLC

VARIABLES
    meta,        \* SWXData.meta: the global attributes, name -> (value, comment)
    varMeta,     \* data_structure[var_name].meta of one variable
    last,        \* the last update call: its arguments and the entry it found
    nops,        \* number of update calls made so far
    meta2,       \* SWXData.meta of a second container (two-run comparison)
    varMeta2,    \* the variable's meta in the second container
    dec,         \* the decisions the last call took in the two containers
    data,        \* the array handed to SWXSchema._types
    inferred,    \* the (dims, types, elements) result of _types(data)
    reinferred,  \* the result of _types on data tagged with the primary type
    gschema,     \* SWXSchema.global_attribute_schema: the rules, in file order
    vschema,     \* SWXSchema.variable_attribute_schema["attribute_key"]
    defaults,    \* SWXSchema.default_global_attributes
    template,    \* the template last built
    cube,        \* a spectra variable: its coordinate system and its meta
    gattrs,      \* the result of derive_global_attributes
    mattrs,      \* the result of derive_measurement_attributes
    raised,      \* how SWXData._derive_metadata ended
    args,        \* the arguments of one call of a schema routine
    ret,         \* what that call returned or raised
    attributes,  \* the global and variable attributes handed to CDFHandler
    written,     \* what the attribute conversion wrote or raised
    target,      \* the file handed to validate
    report,      \* the validation errors returned
    zvar,        \* a variable of a CDF file handed to one check of the validator
    errs,        \* the violations that check returned
    original,    \* the container built by the caller
    cdf,         \* the CDF file save wrote
    reloaded,    \* the container SWXData.load returned
    fields,      \* the arguments of one create_science_filename call
    parsed,      \* what parse_science_filename made of the name created
    passes,      \* the derivation passes run after the first
    previous,    \* the global and variable metadata before the last of them
    swxdata,     \* a container: its three data structures and its global meta
    call,        \* the last call made on it, with the container it found
    disk,        \* the file at the path save writes to
    saved,       \* the last save: its arguments, its outcome and the file it found
    query,       \* the levels and the time range of one search
    listing      \* the prefixes generated for it and the files they let through

mergeVars == <<meta, varMeta, last, nops, meta2, varMeta2, dec>>

typeVars == <<data, inferred, reinferred>>

schemaVars == <<gschema, vschema, defaults, template, cube, gattrs, mattrs, raised>>

routineVars == <<args, ret>>

ioVars == <<attributes, written>>

validationVars == <<target, report>>

rangeVars == <<zvar, errs>>

roundTripVars == <<original, cdf, reloaded>>

filenameVars == <<fields, parsed>>

repassVars == <<passes, previous>>

containerVars == <<swxdata, call>>

diskVars == <<disk, saved>>

searchVars == <<query, listing>>

laterVars == <<routineVars, ioVars, validationVars, rangeVars, roundTripVars, filenameVars, repassVars, containerVars, diskVars, searchVars>>

vars == <<mergeVars, typeVars, schemaVars, laterVars>>

\* what the actions of one component leave alone
otherThanMerge == <<typeVars, schemaVars, laterVars>>
otherThanTypes == <<mergeVars, schemaVars, laterVars>>
otherThanSchema == <<varMeta, last, nops, meta2, varMeta2, dec, typeVars, laterVars>>
otherThanRoutines == <<mergeVars, typeVars, schemaVars, ioVars, validationVars, rangeVars, roundTripVars, filenameVars, repassVars, containerVars, diskVars, searchVars>>
otherThanIo == <<mergeVars, typeVars, schemaVars, routineVars, validationVars, rangeVars, roundTripVars, filenameVars, repassVars, containerVars, diskVars, searchVars>>
otherThanValidation == <<mergeVars, typeVars, schemaVars, routineVars, ioVars, rangeVars, roundTripVars, filenameVars, repassVars, containerVars, diskVars, searchVars>>
otherThanRange == <<mergeVars, typeVars, schemaVars, routineVars, ioVars, validationVars, roundTripVars, filenameVars, repassVars, containerVars, diskVars, searchVars>>
otherThanRoundTrip == <<mergeVars, typeVars, schemaVars, routineVars, ioVars, validationVars, rangeVars, filenameVars, repassVars, containerVars, diskVars, searchVars>>
otherThanFilename == <<mergeVars, typeVars, schemaVars, routineVars, ioVars, validationVars, rangeVars, roundTripVars, repassVars, containerVars, diskVars, searchVars>>
otherThanRepass == <<mergeVars, typeVars, schemaVars, routineVars, ioVars, validationVars, rangeVars, roundTripVars, filenameVars, containerVars, diskVars, searchVars>>
otherThanContainer == <<mergeVars, typeVars, schemaVars, routineVars, ioVars, validationVars, rangeVars, roundTripVars, filenameVars, repassVars, diskVars, searchVars>>
otherThanDisk == <<mergeVars, typeVars, schemaVars, routineVars, ioVars, validationVars, rangeVars, roundTripVars, filenameVars, repassVars, containerVars, searchVars>>
otherThanSearch == <<mergeVars, typeVars, schemaVars, routineVars, ioVars, validationVars, rangeVars, roundTripVars, filenameVars, repassVars, containerVars, diskVars>>

(***************************************************************************)
(* Bounds                                                                  *)
(***************************************************************************)
MaxOps == 3
MaxPairOps == 2
MaxLen == 2

MaxTaggedLen == 1

MaxAxes == 2

(***************************************************************************)
(* Values before any operation                                             *)
(***************************************************************************)
None == "None"

EmptyDict == [x \in {} |-> <<None, "">>]

NoCall == [op |-> "none", attr |-> "", value |-> None, comment |-> "",
           found |-> <<"absent", None, "">>]

NoDecision == [d1 |-> "none", d2 |-> "none", comment2 |-> ""]

NoData == [form |-> "none"]

NoResult == [dims |-> <<>>, types |-> <<>>, elements |-> 0]

\* a container with empty metadata on which no update call was made
MergeIdle ==
    /\ meta = EmptyDict /\ varMeta = EmptyDict /\ last = NoCall /\ nops = 0
    /\ meta2 = EmptyDict /\ varMeta2 = EmptyDict /\ dec = NoDecision

\* no array handed to _types
TypeIdle == data = NoData /\ inferred = NoResult /\ reinferred = NoResult

NoTemplate == [kind |-> "none", items |-> <<>>]

NoCube == [naxis |-> 0]

NotDerived == [raised |-> "not called"]

\* _derive_metadata not called; afterwards the exception it ended with
\* ("none" when it returned) and the loop that raised it
NotCalled == [exc |-> "not called", at |-> ""]

\* no schema loaded, nothing built or derived
SchemaIdle ==
    /\ gschema = <<>> /\ vschema = <<>> /\ defaults = EmptyDict
    /\ template = NoTemplate /\ cube = NoCube
    /\ gattrs = NotDerived /\ mattrs = NotDerived /\ raised = NotCalled

NoArgs == [fn |-> "none"]

NoReturn == [fn |-> "none"]

\* no schema routine called
RoutineIdle == args = NoArgs /\ ret = NoReturn

NothingToWrite == [kind |-> "none"]

NotWritten == [outcome |-> "not called"]

\* no attribute handed to the CDF handler
IoIdle == attributes = NothingToWrite /\ written = NotWritten

NoTarget == [kind |-> "none"]

\* no attribute added to the file since the last call of validate
NoEdit == [var |-> "", attr |-> ""]

NoReport == [outcome |-> "not called", errors |-> <<>>, edit |-> NoEdit, before |-> <<>>]

\* validate not called
ValidationIdle == target = NoTarget /\ report = NoReport

NoVariable == [name |-> ""]

NoErrs == [fn |-> "none", errors |-> <<>>, stale |-> FALSE, before |-> <<>>]

\* no check of the validator called on its own
RangeIdle == zvar = NoVariable /\ errs = NoErrs

NoContainer == [state |-> "none", meta |-> <<>>, variables |-> <<>>]

NoCdf == [outcome |-> "not called"]

\* no container built, saved or loaded
RoundTripIdle == original = NoContainer /\ cdf = NoCdf /\ reloaded = NoContainer

NoFields == [outcome |-> "not called"]

NoParse == [outcome |-> "not called"]

FilenameIdle == fields = NoFields /\ parsed = NoParse

NoPrevious == [meta |-> <<>>, cube |-> [naxis |-> 0]]

RepassIdle == passes = 0 /\ previous = NoPrevious

NoSWXData == [timeseries |-> <<>>, support |-> <<>>, spectra |-> <<>>, meta |-> <<>>]

NoMethod == [op |-> "none", name |-> "", outcome |-> "not called"]

ContainerIdle == swxdata = NoSWXData /\ call = NoMethod

\* cdf_file.attrs of a file nothing was written to
NothingWritten == [a \in {} |-> ""]

\* no file at the path
NoFile == [created |-> FALSE, attrs |-> NothingWritten, zvars |-> <<>>]

NotSaved == [outcome |-> "not called", nsaves |-> 0]

DiskIdle == disk = NoFile /\ saved = NotSaved

NoQuery == [levels |-> <<>>]

NoSearch == [state |-> "not called", prefixes |-> <<>>, files |-> {}]

SearchIdle == query = NoQuery /\ listing = NoSearch

LaterIdle == RoutineIdle /\ IoIdle /\ ValidationIdle /\ RangeIdle /\ RoundTripIdle /\ FilenameIdle /\ RepassIdle /\ ContainerIdle /\ DiskIdle /\ SearchIdle

(***************************************************************************)
(* MetadataMerger: SWXData._update_global_attribute and                    *)
(* SWXData._update_measurement_attribute                                   *)
(***************************************************************************)
\* attribute values and comments the update calls are made with
AttrValues == {None, "v1", "v2"}
AttrComments == {"", "note"}

\* schema.global_attribute_schema: three rules; "Mission_note" has no rule.
\* A rule is a dict that may or may not hold the key "overwrite".
global_attribute_schema ==
    [a \in {"Logical_source", "Descriptor", "Data_type"} |->
        CASE a = "Logical_source" -> [overwrite |-> TRUE]
          [] a = "Descriptor"     -> [overwrite |-> FALSE]
          [] a = "Data_type"      -> [derived |-> TRUE]]

GlobalAttrNames == DOMAIN global_attribute_schema \cup {"Mission_note"}

\* schema.variable_attribute_schema["attribute_key"]; "my_note" has no rule.
variable_attribute_key ==
    [a \in {"FORMAT", "CATDESC", "UNITS"} |->
        CASE a = "FORMAT"  -> [overwrite |-> TRUE]
          [] a = "CATDESC" -> [overwrite |-> FALSE]
          [] a = "UNITS"   -> [derived |-> TRUE]]

VarAttrNames == DOMAIN variable_attribute_key \cup {"my_note"}

\* dict assignment  d[k] = e
DictSet(d, k, e) == [x \in DOMAIN d \cup {k} |-> IF x = k THEN e ELSE d[x]]

\* `"overwrite" in rule and rule["overwrite"]`
OverwriteFlag(rule) == "overwrite" \in DOMAIN rule /\ rule.overwrite

\* The decision shared by the two update methods (swxdata.py 517-540 and
\* 568-587): m is the meta dict, schema the rule table consulted.
\*   "overwrite" : the inner branch that logs "Overriding ..." and assigns
\*   "leave"     : the outer condition holds, the inner one does not
\*   "set"       : the else branch, "If the attribute is not set, set it"
UpdateDecisionIgnoreFlag(m, schema, attr_name, attr_value, attr_comment) ==
    IF attr_name \in DOMAIN m /\ m[attr_name][1] # None /\ attr_name \in DOMAIN schema
    THEN IF m[attr_name][1] # attr_value THEN "overwrite" ELSE "leave"
    ELSE "set"

UpdateDecisionCompareEntry(m, schema, attr_name, attr_value, attr_comment) ==
    IF attr_name \in DOMAIN m /\ m[attr_name][1] # None /\ attr_name \in DOMAIN schema
    THEN IF m[attr_name] # <<attr_value, attr_comment>> /\ OverwriteFlag(schema[attr_name])
         THEN "overwrite"
         ELSE "leave"
    ELSE "set"

UpdateDecisionKeepUnruled(m, schema, attr_name, attr_value, attr_comment) ==
    IF attr_name \in DOMAIN m /\ m[attr_name][1] # None
    THEN IF /\ attr_name \in DOMAIN schema
            /\ m[attr_name][1] # attr_value
            /\ OverwriteFlag(schema[attr_name])
         THEN "overwrite"
         ELSE "leave"
    ELSE "set"

UpdateDecision(m, schema, attr_name, attr_value, attr_comment) ==
    IF attr_name \in DOMAIN m /\ m[attr_name][1] # None /\ attr_name \in DOMAIN schema
    THEN IF m[attr_name][1] # attr_value /\ OverwriteFlag(schema[attr_name])
         THEN "overwrite"
         ELSE "leave"
    ELSE "set"

\* The meta dict after the call: both assigning branches store the tuple
\* (attr_value, attr_comment).
UpdateAttribute(m, schema, attr_name, attr_value, attr_comment) ==
    IF UpdateDecision(m, schema, attr_name, attr_value, attr_comment) = "leave"
    THEN m
    ELSE DictSet(m, attr_name, <<attr_value, attr_comment>>)

\* what the call found under the attribute name
Found(m, a) == IF a \in DOMAIN m THEN <<"entry", m[a][1], m[a][2]>> ELSE <<"absent", None, "">>

InitMerge == MergeIdle /\ TypeIdle /\ SchemaIdle /\ LaterIdle

\* SWXData._update_global_attribute(attr_name, attr_value, attr_comment)
UpdateGlobalAttribute(attr_name, attr_value, attr_comment) ==
    /\ nops < MaxOps
    /\ meta' = UpdateAttribute(meta, global_attribute_schema, attr_name, attr_value, attr_comment)
    /\ last' = [op |-> "global", attr |-> attr_name, value |-> attr_value,
                comment |-> attr_comment, found |-> Found(meta, attr_name)]
    /\ nops' = nops + 1
    /\ UNCHANGED <<varMeta, meta2, varMeta2, dec, otherThanMerge>>

\* SWXData._update_measurement_attribute(data_structure, var_name, attr_name, ...)
UpdateMeasurementAttribute(attr_name, attr_value, attr_comment) ==
    /\ nops < MaxOps
    /\ varMeta' = UpdateAttribute(varMeta, variable_attribute_key, attr_name, attr_value, attr_comment)
    /\ last' = [op |-> "variable", attr |-> attr_name, value |-> attr_value,
                comment |-> attr_comment, found |-> Found(varMeta, attr_name)]
    /\ nops' = nops + 1
    /\ UNCHANGED <<meta, meta2, varMeta2, dec, otherThanMerge>>

NextMerge ==
    \/ \E a \in GlobalAttrNames, v \in AttrValues, c \in AttrComments :
          UpdateGlobalAttribute(a, v, c)
    \/ \E a \in VarAttrNames, v \in AttrValues, c \in AttrComments :
          UpdateMeasurementAttribute(a, v, c)

SpecMerge == InitMerge /\ [][NextMerge]_vars

\* ---- two containers receiving the same calls with different comments ----

\* the same _update_global_attribute call on both containers: same name and
\* value, comment c1 in the first and c2 in the second
UpdateGlobalAttributeTwoRuns(attr_name, attr_value, c1, c2) ==
    /\ nops < MaxPairOps
    /\ meta' = UpdateAttribute(meta, global_attribute_schema, attr_name, attr_value, c1)
    /\ meta2' = UpdateAttribute(meta2, global_attribute_schema, attr_name, attr_value, c2)
    /\ dec' = [d1 |-> UpdateDecision(meta, global_attribute_schema, attr_name, attr_value, c1),
               d2 |-> UpdateDecision(meta2, global_attribute_schema, attr_name, attr_value, c2),
               comment2 |-> c2]
    /\ last' = [op |-> "global", attr |-> attr_name, value |-> attr_value,
                comment |-> c1, found |-> Found(meta, attr_name)]
    /\ nops' = nops + 1
    /\ UNCHANGED <<varMeta, varMeta2, otherThanMerge>>

\* the same _update_measurement_attribute call on both containers
UpdateMeasurementAttributeTwoRuns(attr_name, attr_value, c1, c2) ==
    /\ nops < MaxPairOps
    /\ varMeta' = UpdateAttribute(varMeta, variable_attribute_key, attr_name, attr_value, c1)
    /\ varMeta2' = UpdateAttribute(varMeta2, variable_attribute_key, attr_name, attr_value, c2)
    /\ dec' = [d1 |-> UpdateDecision(varMeta, variable_attribute_key, attr_name, attr_value, c1),
               d2 |-> UpdateDecision(varMeta2, variable_attribute_key, attr_name, attr_value, c2),
               comment2 |-> c2]
    /\ last' = [op |-> "variable", attr |-> attr_name, value |-> attr_value,
                comment |-> c1, found |-> Found(varMeta, attr_name)]
    /\ nops' = nops + 1
    /\ UNCHANGED <<meta, meta2, otherThanMerge>>

NextMergeTwoRuns ==
    \/ \E a \in GlobalAttrNames, v \in AttrValues, c1 \in AttrComments, c2 \in AttrComments :
          UpdateGlobalAttributeTwoRuns(a, v, c1, c2)
    \/ \E a \in VarAttrNames, v \in AttrValues, c1 \in AttrComments, c2 \in AttrComments :
          UpdateMeasurementAttributeTwoRuns(a, v, c1, c2)

SpecMergeTwoRuns == InitMerge /\ [][NextMergeTwoRuns]_vars

(***************************************************************************)
(* Claims on the update policy                                             *)
(***************************************************************************)

\* the attributes whose rule says overwrite=false
NoOverwriteGlobal ==
    {a \in DOMAIN global_attribute_schema :
        "overwrite" \in DOMAIN global_attribute_schema[a] /\ ~global_attribute_schema[a].overwrite}
NoOverwriteVariable ==
    {a \in DOMAIN variable_attribute_key :
        "overwrite" \in DOMAIN variable_attribute_key[a] /\ ~variable_attribute_key[a].overwrite}

\* C1: an attribute whose rule has overwrite=false, once it holds a non-None
\* value, keeps that value through every later update call, global or
\* per-variable, whatever new value the call brings.
C1_OverwriteFalseKeepsFirstValue ==
    [][ /\ \A a \in NoOverwriteGlobal :
              (a \in DOMAIN meta /\ meta[a][1] # None)
                  => (a \in DOMAIN meta' /\ meta'[a][1] = meta[a][1])
        /\ \A a \in NoOverwriteVariable :
              (a \in DOMAIN varMeta /\ varMeta[a][1] # None)
                  => (a \in DOMAIN varMeta' /\ varMeta'[a][1] = varMeta[a][1]) ]_vars

\* a call brought a different non-None value to an overwrite=false attribute
\* that already held one, in the global meta and in a variable's meta
C1_Witness ==
    /\ last.op = "variable" /\ last.attr \in NoOverwriteVariable
    /\ last.found[1] = "entry" /\ last.found[2] # None
    /\ last.value # None /\ last.value # last.found[2]
    /\ varMeta[last.attr][1] = last.found[2]
    /\ \E g \in NoOverwriteGlobal : g \in DOMAIN meta /\ meta[g][1] # None

\* the entry of the last call's attribute after the call
EntryAfter == IF last.op = "global" THEN meta[last.attr] ELSE varMeta[last.attr]

\* C2 as stated: the three-case table, for every attribute name whether or
\* not the schema has a rule for it.
C2_ThreeCaseTableAnyName ==
    last.op = "global" =>
        LET wasSet == last.found[1] = "entry" /\ last.found[2] # None
            marked == /\ last.attr \in DOMAIN global_attribute_schema
                      /\ OverwriteFlag(global_attribute_schema[last.attr])
        IN  IF ~wasSet
            THEN meta[last.attr] = <<last.value, last.comment>>
            ELSE IF marked /\ last.value # last.found[2]
                 THEN meta[last.attr] = <<last.value, last.comment>>
                 ELSE meta[last.attr] = <<last.found[2], last.found[3]>>

\* C2 (amended): the three-case table holds for every attribute name the
\* schema has a rule for; an attribute name without a rule is always set to
\* (newValue, newComment), also when it already holds a non-None value.
C2_ThreeCaseTableRuledNames ==
    last.op = "global" =>
        LET wasSet == last.found[1] = "entry" /\ last.found[2] # None
            ruled  == last.attr \in DOMAIN global_attribute_schema
            marked == ruled /\ OverwriteFlag(global_attribute_schema[last.attr])
        IN  IF ~wasSet \/ ~ruled
            THEN meta[last.attr] = <<last.value, last.comment>>
            ELSE IF marked /\ last.value # last.found[2]
                 THEN meta[last.attr] = <<last.value, last.comment>>
                 ELSE meta[last.attr] = <<last.found[2], last.found[3]>>

\* a call found a non-None value under a name without a rule and replaced it
C2_Witness ==
    /\ last.op = "global" /\ last.attr \notin DOMAIN global_attribute_schema
    /\ last.found[1] = "entry" /\ last.found[2] # None
    /\ <<last.found[2], last.found[3]>> # <<last.value, last.comment>>
    /\ meta[last.attr] = <<last.value, last.comment>>

\* the two containers hold the same keys with the same values
SameValues(m1, m2) ==
    /\ DOMAIN m1 = DOMAIN m2
    /\ \A a \in DOMAIN m1 : m1[a][1] = m2[a][1]

\* C3: two containers that hold the same values with possibly different
\* comments and receive the same calls with possibly different comments take
\* the same decision at every call and keep holding the same values.
C3_DecisionIgnoresComments ==
    /\ dec.d1 = dec.d2
    /\ SameValues(meta, meta2)
    /\ SameValues(varMeta, varMeta2)

\* a call whose value equals the stored one, with a new comment that differs
\* from the stored comment in one container only, left both entries alone
C3_Witness ==
    /\ last.op = "global" /\ last.found[1] = "entry"
    /\ last.found[2] = last.value /\ last.value # None
    /\ last.comment = last.found[3]
    /\ dec.comment2 # meta2[last.attr][2]
    /\ meta[last.attr][2] # meta2[last.attr][2]
    /\ dec.d1 = "leave" /\ dec.d2 = "leave"

(***************************************************************************)
(* TypeInferencer: SWXSchema._types                                        *)
(*                                                                         *)
(* The data and the cut-offs of the ladder reach 2**63 and beyond, so an   *)
(* integer is written sign * (2**e + d) and compared exactly on that form. *)
(* The exponents used are far enough apart for the order on (e, d) to be   *)
(* the order on the numbers.                                               *)
(***************************************************************************)
Num(neg, e, d) == [neg |-> neg, e |-> e, d |-> d]

Pow2(e) == Num(FALSE, e, 0)

Zero == Num(FALSE, 0, -1)

Negate(x) == IF x = Zero THEN Zero ELSE [x EXCEPT !.neg = ~x.neg]

MagLt(a, b) == a.e < b.e \/ (a.e = b.e /\ a.d < b.d)

Lt(a, b) ==
    CASE a.neg /\ ~b.neg  -> TRUE
      [] ~a.neg /\ b.neg  -> FALSE
      [] ~a.neg /\ ~b.neg -> MagLt(a, b)
      [] a.neg /\ b.neg   -> MagLt(b, a)

Le(a, b) == a = b \/ Lt(a, b)

\* the integers the arrays are made of: 0, 1, and each side of every
\* boundary of the integer types
IntGrid ==
    {Zero, Pow2(0), Num(TRUE, 0, 0), Num(FALSE, 64, -1)}
        \cup {Num(FALSE, e, d) : e \in {7, 8, 15, 16, 31, 32, 63}, d \in {-1, 0}}
        \cup {Num(TRUE, e, 0) : e \in {7, 15, 31, 63}}
        \cup {Num(TRUE, e, 1) : e \in {7, 15, 31}}

RECURSIVE SeqMin(_), SeqMax(_)
\* np.min(d)
SeqMin(q) ==
    IF Len(q) = 1 THEN q[1]
    ELSE LET m == SeqMin(Tail(q)) IN IF Lt(q[1], m) THEN q[1] ELSE m
\* np.max(d)
SeqMax(q) ==
    IF Len(q) = 1 THEN q[1]
    ELSE LET m == SeqMax(Tail(q)) IN IF Lt(m, q[1]) THEN q[1] ELSE m

Range(q) == {q[i] : i \in DOMAIN q}

\* the value range of the numpy integer dtypes
DtypeMin(dtype) ==
    CASE dtype = "int8"  -> Negate(Pow2(7))
      [] dtype = "int16" -> Negate(Pow2(15))
      [] dtype = "int32" -> Negate(Pow2(31))
      [] dtype = "int64" -> Negate(Pow2(63))
      [] OTHER           -> Zero
DtypeMax(dtype) ==
    CASE dtype = "int8"   -> Num(FALSE, 7, -1)
      [] dtype = "uint8"  -> Num(FALSE, 8, -1)
      [] dtype = "int16"  -> Num(FALSE, 15, -1)
      [] dtype = "uint16" -> Num(FALSE, 16, -1)
      [] dtype = "int32"  -> Num(FALSE, 31, -1)
      [] dtype = "uint32" -> Num(FALSE, 32, -1)
      [] dtype = "int64"  -> Num(FALSE, 63, -1)
      [] dtype = "uint64" -> Num(FALSE, 64, -1)
Fits(x, dtype) == Le(DtypeMin(dtype), x) /\ Le(x, DtypeMax(dtype))

IntDtypes == {"int8", "uint8", "int16", "uint16", "int32", "uint32", "int64", "uint64"}

\* the dtype np.asanyarray gives a plain sequence of Python integers
ListDtype(vals) ==
    IF \A i \in DOMAIN vals : Fits(vals[i], "int64") THEN "int64"
    ELSE IF \A i \in DOMAIN vals : Fits(vals[i], "uint64") THEN "uint64"
    ELSE "float64"

\* d.dtype.kind
KindOf(dtype) ==
    CASE dtype \in {"int8", "int16", "int32", "int64"}     -> "i"
      [] dtype \in {"uint8", "uint16", "uint32", "uint64"} -> "u"
      [] dtype \in {"float32", "float64"}                  -> "f"
      [] dtype = "S"                                       -> "S"
      [] dtype = "U"                                       -> "U"
      [] OTHER                                             -> "O"

\* const.CDF_*.value, the type codes of the CDF library
TypeNumber(t) ==
    CASE t = "CDF_INT1" -> 1   [] t = "CDF_INT2" -> 2   [] t = "CDF_INT4" -> 4
      [] t = "CDF_INT8" -> 8   [] t = "CDF_UINT1" -> 11 [] t = "CDF_UINT2" -> 12
      [] t = "CDF_UINT4" -> 14 [] t = "CDF_REAL4" -> 21 [] t = "CDF_REAL8" -> 22
      [] t = "CDF_EPOCH" -> 31 [] t = "CDF_EPOCH16" -> 32
      [] t = "CDF_TIME_TT2000" -> 33
      [] t = "CDF_BYTE" -> 41  [] t = "CDF_FLOAT" -> 44 [] t = "CDF_DOUBLE" -> 45
      [] t = "CDF_CHAR" -> 51  [] t = "CDF_UCHAR" -> 52

\* self.numpytypedict, in insertion order: <<CDF type, numpy dtype>>
numpytypedict ==
    << <<"CDF_BYTE", "int8">>, <<"CDF_CHAR", "int8">>, <<"CDF_INT1", "int8">>,
       <<"CDF_UCHAR", "uint8">>, <<"CDF_UINT1", "uint8">>,
       <<"CDF_INT2", "int16">>, <<"CDF_UINT2", "uint16">>,
       <<"CDF_INT4", "int32">>, <<"CDF_UINT4", "uint32">>,
       <<"CDF_INT8", "int64">>,
       <<"CDF_FLOAT", "float32">>, <<"CDF_REAL4", "float32">>,
       <<"CDF_DOUBLE", "float64">>, <<"CDF_REAL8", "float64">>,
       <<"CDF_EPOCH", "float64">>, <<"CDF_EPOCH16", "float64x2">>,
       <<"CDF_TIME_TT2000", "int64">> >>

timetypes == {"CDF_EPOCH", "CDF_EPOCH16", "CDF_TIME_TT2000"}

CdfTypes == {numpytypedict[i][1] : i \in DOMAIN numpytypedict}

\* element 1 of each pair
Firsts(pairs) == [i \in DOMAIN pairs |-> pairs[i][1]]

\* list.sort(key=lambda x: x % 50, reverse=True): a stable sort, so types with
\* equal keys keep the order they had
InsertByKey(sorted, t) ==
    LET k == Cardinality({i \in DOMAIN sorted : TypeNumber(sorted[i]) % 50 >= TypeNumber(t) % 50})
    IN  SubSeq(sorted, 1, k) \o <<t>> \o SubSeq(sorted, k + 1, Len(sorted))

RECURSIVE SortByKey(_)
SortByKey(q) ==
    IF q = <<>> THEN <<>>
    ELSE InsertByKey(SortByKey(SubSeq(q, 1, Len(q) - 1)), q[Len(q)])

\* "np array came in, use its type": the types whose numpy type is the
\* array's dtype, time types left out, sorted
DtypeCandidates(dtype) ==
    LET Match(p) == p[2] = dtype /\ p[1] \notin timetypes
    IN  SortByKey(Firsts(SelectSeq(numpytypedict, Match)))

\* 1.7e38 lies between 2**126 and 2**127 and 8e307 between 2**1022 and
\* 2**1023: written here as the point just above the lower power, which
\* compares like them with every integer of the grid
Cutoff1p7e38 == Num(FALSE, 126, 1)
Cutoff8e307 == Num(FALSE, 1022, 1)

\* the ladder walked when minval < 0: <<type, cutoff>>
NegativeLadder ==
    << <<"CDF_BYTE", Pow2(7)>>, <<"CDF_INT1", Pow2(7)>>, <<"CDF_INT2", Pow2(15)>>,
       <<"CDF_INT4", Pow2(31)>>, <<"CDF_INT8", Pow2(63)>>,
       <<"CDF_FLOAT", Cutoff1p7e38>>, <<"CDF_REAL4", Cutoff1p7e38>>,
       <<"CDF_DOUBLE", Cutoff8e307>>, <<"CDF_REAL8", Cutoff8e307>> >>

\* a ladder with each unsigned type ahead of the signed type of its width
UnsignedFirstLadder ==
    << <<"CDF_UINT1", Pow2(8)>>, <<"CDF_BYTE", Pow2(7)>>, <<"CDF_INT1", Pow2(7)>>,
       <<"CDF_UINT2", Pow2(16)>>, <<"CDF_INT2", Pow2(15)>>,
       <<"CDF_UINT4", Pow2(32)>>, <<"CDF_INT4", Pow2(31)>>,
       <<"CDF_INT8", Pow2(63)>>,
       <<"CDF_FLOAT", Cutoff1p7e38>>, <<"CDF_REAL4", Cutoff1p7e38>>,
       <<"CDF_DOUBLE", Cutoff8e307>>, <<"CDF_REAL8", Cutoff8e307>> >>

\* the ladder walked when minval >= 0
NonNegativeLadder ==
    << <<"CDF_BYTE", Pow2(7)>>, <<"CDF_INT1", Pow2(7)>>, <<"CDF_UINT1", Pow2(8)>>,
       <<"CDF_INT2", Pow2(15)>>, <<"CDF_UINT2", Pow2(16)>>,
       <<"CDF_INT4", Pow2(31)>>, <<"CDF_UINT4", Pow2(32)>>,
       <<"CDF_INT8", Pow2(63)>>,
       <<"CDF_FLOAT", Cutoff1p7e38>>, <<"CDF_REAL4", Cutoff1p7e38>>,
       <<"CDF_DOUBLE", Cutoff8e307>>, <<"CDF_REAL8", Cutoff8e307>> >>

\* a filter that keeps a type when the cutoff is reached
CoversInclusive(c, minval, maxval) ==
    Le(maxval, c) /\ (Le(Zero, minval) \/ Le(Negate(c), minval))

\* `c > maxval and (minval >= 0 or minval >= -c)`
Covers(c, minval, maxval) ==
    Lt(maxval, c) /\ (Le(Zero, minval) \/ Le(Negate(c), minval))

\* the integer branch: choose the ladder by the sign of minval, keep the
\* types whose cutoff covers the data
IntegerCandidates(vals) ==
    LET minval == SeqMin(vals)
        maxval == SeqMax(vals)
        ladder == IF Lt(minval, Zero) THEN NegativeLadder ELSE NonNegativeLadder
        Keep(p) == Covers(p[2], minval, maxval)
    IN  Firsts(SelectSeq(ladder, Keep))

\* A float is known by its magnitude only: "zero", "tiny" (0 < |x| < 3e-39),
\* "normal", "huge" (|x| > 1.7e38).  An integer turned float64 by numpy is
\* zero or normal.
FloatClasses == {"zero", "tiny", "normal", "huge"}

ClassOf(x) ==
    IF "f" \in DOMAIN x THEN x.f ELSE IF x = Zero THEN "zero" ELSE "normal"

\* the float branch: double precision only when a nonzero magnitude is
\* outside the window
FloatCandidates(vals) ==
    IF \E i \in DOMAIN vals : ClassOf(vals[i]) \in {"tiny", "huge"}
    THEN <<"CDF_DOUBLE", "CDF_REAL8">>
    ELSE <<"CDF_FLOAT", "CDF_REAL4", "CDF_DOUBLE", "CDF_REAL8">>

NoTag == ""

\* The candidates before the prior type is looked at (schema.py 475-606).
\* Object arrays are not among the inputs.
Candidates(a) ==
    LET kind == KindOf(a.dtype)
        fromDtype ==
            IF kind \in {"S", "U"} THEN <<"CDF_CHAR", "CDF_UCHAR">>
            ELSE IF a.form = "time" THEN <<"CDF_TIME_TT2000", "CDF_EPOCH16", "CDF_EPOCH">>
            ELSE IF a.form = "ndarray" THEN DtypeCandidates(a.dtype)
            ELSE <<>>
    IN  IF fromDtype # <<>> THEN fromDtype
        ELSE IF kind \in {"i", "u"} THEN IntegerCandidates(a.vals)
        ELSE FloatCandidates(a.vals)

\* prior-type handling that keeps the recomputed list
PreferTypeIgnored(types, a) == types

\* "If data has a type ... prefer that type" (schema.py 609-625)
PreferType(types, a) ==
    IF a.tag = NoTag THEN types
    ELSE IF a.tag \in Range(types) THEN <<a.tag>>
    ELSE IF a.form = "ndarray" THEN <<a.tag>>
    ELSE types

Max(x, y) == IF x >= y THEN x ELSE y

RECURSIVE MaxOver(_, _)
\* the largest value of a field over the elements
MaxOver(q, field) ==
    IF q = <<>> THEN 0 ELSE Max(q[1][field], MaxOver(Tail(q), field))

\* number of elements: the length of the longest string, 1 for the rest
Elements(a) ==
    LET fromData ==
            CASE a.dtype = "S" -> MaxOver(a.vals, "bytes")
              [] a.dtype = "U" -> Max((4 * MaxOver(a.vals, "chars")) \div 4,
                                      MaxOver(a.vals, "bytes"))
              [] OTHER -> 1
    IN  IF a.nelems > fromData THEN a.nelems ELSE fromData

\* SWXSchema._types(data): (dims, types, elements)
_types(a) ==
    [dims |-> <<Len(a.vals)>>,
     types |-> PreferType(Candidates(a), a),
     elements |-> Elements(a)]

\* ---- the arrays handed to _types, by number of elements n ----

Array(form, dtype, vals, tag, nelems) ==
    [form |-> form, dtype |-> dtype, vals |-> vals, tag |-> tag, nelems |-> nelems]

\* plain sequences of Python integers that numpy gives an integer dtype
IntLists(n) ==
    {Array("list", ListDtype(v), v, NoTag, 0) :
        v \in {w \in [1..n -> IntGrid] : ListDtype(w) # "float64"}}

\* integer arrays that come with a dtype
IntArrays(n) ==
    UNION {{Array("ndarray", dt, v, NoTag, 0) :
                v \in {w \in [1..n -> IntGrid] : \A i \in DOMAIN w : Fits(w[i], dt)}} :
           dt \in IntDtypes}

FloatElems == {[f |-> c] : c \in FloatClasses}

FloatInputs(n) ==
    {Array("list", "float64", v, NoTag, 0) : v \in [1..n -> FloatElems]}
        \cup {Array("ndarray", dt, v, NoTag, 0) :
                dt \in {"float32", "float64"}, v \in [1..n -> FloatElems]}
        \cup {Array("list", "float64", v, NoTag, 0) :
                v \in {w \in [1..n -> IntGrid] : ListDtype(w) = "float64"}}

\* a string is known by its number of characters and of encoded bytes
StrElems == {[chars |-> 1, bytes |-> 1], [chars |-> 2, bytes |-> 2], [chars |-> 2, bytes |-> 5]}

StrInputs(n) ==
    {Array(form, dt, v, NoTag, 0) :
        form \in {"list", "ndarray"}, dt \in {"S", "U"}, v \in [1..n -> StrElems]}

TimeInputs(n) == {Array("time", "O", v, NoTag, 0) : v \in [1..n -> {[t |-> "instant"]}]}

\* the prior types the inputs are tagged with at the start
PriorTypes == {"CDF_INT1", "CDF_UINT2", "CDF_INT8", "CDF_REAL4", "CDF_CHAR"}

\* data.type() returns t; an ndarray with a type is a VarCopy and has nelems
Tagged(a, t) ==
    [a EXCEPT !.tag = t, !.nelems = IF a.form = "ndarray" THEN 1 ELSE 0]

Untagged(n) ==
    IntLists(n) \cup IntArrays(n) \cup FloatInputs(n) \cup StrInputs(n) \cup TimeInputs(n)

\* prior-type handling looks at the candidates, not at the length: the tagged
\* inputs are the short ones
TypeInputs(n) ==
    IF n <= MaxTaggedLen
    THEN Untagged(n) \cup {Tagged(a, t) : a \in {x \in Untagged(n) : x.form # "time"},
                                          t \in PriorTypes}
    ELSE Untagged(n)

InitTypes ==
    /\ \E n \in 1..MaxLen : data \in TypeInputs(n)
    /\ inferred = NoResult
    /\ reinferred = NoResult
    /\ MergeIdle
    /\ SchemaIdle
    /\ LaterIdle

\* (dims, types, elements) = schema._types(data)
Infer ==
    /\ inferred = NoResult
    /\ inferred' = _types(data)
    /\ UNCHANGED <<data, reinferred, otherThanTypes>>

\* the same array, now carrying the primary type of the first inference as
\* its type, handed to _types again (an astropy Time has no type())
ReInfer ==
    /\ inferred # NoResult
    /\ reinferred = NoResult
    /\ data.form # "time"
    /\ reinferred' = _types(Tagged(data, inferred.types[1]))
    /\ UNCHANGED <<data, inferred, otherThanTypes>>

NextTypes == Infer \/ ReInfer

SpecTypes == InitTypes /\ [][NextTypes]_vars

(***************************************************************************)
(* Properties of type inference                                            *)
(***************************************************************************)
Pos(q, t) == CHOOSE i \in DOMAIN q : q[i] = t

NumpyType(t) == numpytypedict[CHOOSE i \in DOMAIN numpytypedict : numpytypedict[i][1] = t][2]

\* x is within the representable range of CDF type t
TypeHolds(t, x) ==
    CASE NumpyType(t) \in IntDtypes -> Fits(x, NumpyType(t))
      [] NumpyType(t) = "float32"   -> Lt(Negate(Cutoff1p7e38), x) /\ Lt(x, Cutoff1p7e38)
      [] OTHER                      -> Lt(Negate(Cutoff8e307), x) /\ Lt(x, Cutoff8e307)

TypeCoversData(t, vals) == \A i \in DOMAIN vals : TypeHolds(t, vals[i])

\* the types of the fixed ladder whose range contains the data, in ladder order
RangeFiltered(vals) ==
    LET Test(t) == TypeCoversData(t, vals)
    IN  SelectSeq(Firsts(NonNegativeLadder), Test)

IntegerTypes ==
    {"CDF_BYTE", "CDF_INT1", "CDF_UINT1", "CDF_INT2", "CDF_UINT2",
     "CDF_INT4", "CDF_UINT4", "CDF_INT8"}

\* <<signed type, unsigned type>> of one width
SameWidthPairs ==
    {<<"CDF_BYTE", "CDF_UINT1">>, <<"CDF_INT1", "CDF_UINT1">>,
     <<"CDF_INT2", "CDF_UINT2">>, <<"CDF_INT4", "CDF_UINT4">>}

IntegerInput == data.form # "time" /\ KindOf(data.dtype) \in {"i", "u"}

\* C4: inferring again with the primary type of the first inference as the
\* prior type gives that same primary type, and whenever the prior type is
\* among the recomputed candidates the list is exactly [prior type].
C4_TypeInferenceIdempotent ==
    /\ reinferred # NoResult =>
          /\ reinferred.types[1] = inferred.types[1]
          /\ inferred.types[1] \in Range(Candidates(data)) =>
                reinferred.types = <<inferred.types[1]>>
    /\ (inferred # NoResult /\ data.tag # NoTag /\ data.tag \in Range(Candidates(data))) =>
          inferred.types = <<data.tag>>

C4_Witness ==
    /\ reinferred # NoResult
    /\ data.tag = NoTag
    /\ Len(inferred.types) > 1
    /\ reinferred.types = <<inferred.types[1]>>

\* C5 as stated: for integer data with min >= 0, an unsigned type comes
\* before the signed type of the same width when both are candidates.
C5_UnsignedBeforeSigned ==
    (inferred # NoResult /\ IntegerInput /\ Le(Zero, SeqMin(data.vals))) =>
        \A p \in SameWidthPairs :
            (p[1] \in Range(inferred.types) /\ p[2] \in Range(inferred.types)) =>
                Pos(inferred.types, p[2]) < Pos(inferred.types, p[1])

\* C5: for integer data with min >= 0, the signed type comes before the
\* unsigned type of the same width whenever both are candidates; for a plain
\* sequence with no prior type both are candidates whenever both cover the
\* data.
C5_SignedBeforeUnsigned ==
    (inferred # NoResult /\ IntegerInput /\ Le(Zero, SeqMin(data.vals))) =>
        \A p \in SameWidthPairs :
            /\ (p[1] \in Range(inferred.types) /\ p[2] \in Range(inferred.types)) =>
                  Pos(inferred.types, p[1]) < Pos(inferred.types, p[2])
            /\ (data.form = "list" /\ data.tag = NoTag
                  /\ TypeCoversData(p[1], data.vals) /\ TypeCoversData(p[2], data.vals)) =>
                  (p[1] \in Range(inferred.types) /\ p[2] \in Range(inferred.types))

C5_Witness ==
    /\ inferred # NoResult
    /\ IntegerInput
    /\ data.form = "list"
    /\ Le(Zero, SeqMin(data.vals))
    /\ "CDF_INT1" \notin Range(inferred.types)
    /\ "CDF_INT2" \in Range(inferred.types)
    /\ "CDF_UINT2" \in Range(inferred.types)

TypedArrayCandidates(dtype) ==
    CASE dtype = "int8"   -> <<"CDF_BYTE", "CDF_CHAR", "CDF_INT1">>
      [] dtype = "uint8"  -> <<"CDF_UINT1", "CDF_UCHAR">>
      [] dtype = "int16"  -> <<"CDF_INT2">>
      [] dtype = "uint16" -> <<"CDF_UINT2">>
      [] dtype = "int32"  -> <<"CDF_INT4">>
      [] dtype = "uint32" -> <<"CDF_UINT4">>
      [] dtype = "int64"  -> <<"CDF_INT8">>

GlobalRuleNames == <<"Generation_date", "Data_type", "SWxSOC_version">>

VariableRuleNames == <<"CATDESC", "UNITS">>

\* the routine a rule names
DerivationFn(name) ==
    CASE name = "Generation_date" -> "_get_generation_date"
      [] name = "Data_type"       -> "_get_data_type"
      [] name = "SWxSOC_version"  -> "_get_swxsoc_version"
      [] name = "Logical_source"  -> "_get_logical_source"
      [] OTHER                    -> "_get_units"

Rule(name, required, derived) ==
    [required |-> required, derived |-> derived, overwrite |-> FALSE,
     derivation_fn |-> DerivationFn(name)]

\* every rule table over the names: each rule required or not, derived or not
RuleTables(names) ==
    {[i \in DOMAIN names |-> <<names[i], Rule(names[i], f[i][1], f[i][2])>>] :
        f \in [DOMAIN names -> BOOLEAN \X BOOLEAN]}

\* default global attributes: name -> (value, comment)
DefaultTables(names) == {[a \in S |-> <<"default", "">>] : S \in SUBSET names}

Keys(items) == {items[i][1] : i \in DOMAIN items}

RECURSIVE GlobalTemplateLoop(_, _, _)
\* the loop of global_attribute_template over global_attribute_schema.items()
GlobalTemplateLoop(items, dflt, tmpl) ==
    IF items = <<>> THEN tmpl
    ELSE LET attr_name == items[1][1]
             attr_schema == items[1][2]
         IN  GlobalTemplateLoop(Tail(items), dflt,
                 IF attr_schema.required /\ ~attr_schema.derived
                        /\ attr_name \notin DOMAIN dflt
                 THEN Append(tmpl, <<attr_name, None>>)
                 ELSE tmpl)

\* a template that does not look at the defaults
global_attribute_template_all_required(gs, dflt) == GlobalTemplateLoop(gs, EmptyDict, <<>>)

global_attribute_template(gs, dflt) == GlobalTemplateLoop(gs, dflt, <<>>)

RECURSIVE MeasurementTemplateLoop(_, _)
\* the loop of measurement_attribute_template over attribute_key.items()
MeasurementTemplateLoop(items, tmpl) ==
    IF items = <<>> THEN tmpl
    ELSE LET attr_name == items[1][1]
             attr_schema == items[1][2]
         IN  MeasurementTemplateLoop(Tail(items),
                 IF attr_schema.required /\ ~attr_schema.derived
                 THEN Append(tmpl, <<attr_name, None>>)
                 ELSE tmpl)

measurement_attribute_template(vs) == MeasurementTemplateLoop(vs, <<>>)

\* nothing derived, no container
DeriveIdle == cube = NoCube /\ gattrs = NotDerived /\ mattrs = NotDerived /\ raised = NotCalled

InitTemplate ==
    /\ gschema \in RuleTables(GlobalRuleNames)
    /\ vschema \in RuleTables(VariableRuleNames)
    /\ defaults \in DefaultTables({"Data_type", "SWxSOC_version", "Mission"})
    /\ template = NoTemplate
    /\ DeriveIdle
    /\ MergeIdle
    /\ TypeIdle
    /\ LaterIdle

\* schema.global_attribute_template()
GlobalAttributeTemplate ==
    /\ template' = [kind |-> "global", items |-> global_attribute_template(gschema, defaults)]
    /\ UNCHANGED <<gschema, vschema, defaults, cube, gattrs, mattrs, raised, meta, otherThanSchema>>

\* schema.measurement_attribute_template()
MeasurementAttributeTemplate ==
    /\ template' = [kind |-> "variable", items |-> measurement_attribute_template(vschema)]
    /\ UNCHANGED <<gschema, vschema, defaults, cube, gattrs, mattrs, raised, meta, otherThanSchema>>

NextTemplate == GlobalAttributeTemplate \/ MeasurementAttributeTemplate

SpecTemplate == InitTemplate /\ [][NextTemplate]_vars

\* the rule of a name in a schema
RuleOf(schema, name) == schema[CHOOSE i \in DOMAIN schema : schema[i][1] = name][2]

\* the template holds each of its names once, with None
WellFormedTemplate ==
    /\ \A i \in DOMAIN template.items : template.items[i][2] = None
    /\ Cardinality(Keys(template.items)) = Len(template.items)

TemplateExact ==
    /\ WellFormedTemplate
    /\ template.kind = "global" =>
          Keys(template.items) =
              {name \in Keys(gschema) :
                  /\ RuleOf(gschema, name).required
                  /\ ~RuleOf(gschema, name).derived
                  /\ name \notin DOMAIN defaults}
    /\ template.kind = "variable" =>
          Keys(template.items) =
              {name \in Keys(vschema) :
                  RuleOf(vschema, name).required /\ ~RuleOf(vschema, name).derived}

\* C7: the global template holds exactly the names whose rule is required and
\* not derived and that have no default, each with None; the variable template
\* holds exactly the names whose rule is required and not derived; building a
\* template leaves the schema and the defaults as they were.
C7_TemplatesExact ==
    [][/\ TemplateExact'
       /\ gschema' = gschema /\ vschema' = vschema /\ defaults' = defaults]_vars

C7_Witness ==
    /\ template.kind = "global"
    /\ Len(template.items) >= 1
    /\ \E i \in DOMAIN gschema :
          /\ gschema[i][2].required /\ ~gschema[i][2].derived
          /\ gschema[i][1] \in DOMAIN defaults
    /\ \E i \in DOMAIN gschema : gschema[i][2].required /\ gschema[i][2].derived

(***************************************************************************)
(* MetadataDeriver: SWXSchema.derive_global_attributes,                    *)
(* SWXSchema.derive_measurement_attributes and SWXData._derive_metadata    *)
(*                                                                         *)
(* What a derivation routine returns is a Python value with its type: a    *)
(* str is the sequence of its characters, so that unpacking and rstrip     *)
(* work on it as Python does.  A 2-tuple of such values is a "tuple"; the  *)
(* (value, comment) 2-tuple read from the container's meta is an "entry".  *)
(***************************************************************************)
PyStr(chars) == [t |-> "str", s |-> chars]

PyNum(n) == [t |-> "num", n |-> n]

PyUnit(chars) == [t |-> "unit", u |-> chars]

PyTuple(a, b) == [t |-> "tuple", a |-> a, b |-> b]

PyEntry(value, comment) == [t |-> "entry", value |-> value, comment |-> comment]

PyNone == [t |-> "none"]

\* a call that ends with the exception exc instead of a value
PyRaises(exc) == [t |-> "raises", exc |-> exc]

\* bool(x): an empty str and 0 are false, a 2-tuple is true
Truthy(x) ==
    CASE x.t = "str" -> x.s # <<>>
      [] x.t = "num" -> x.n # 0
      [] OTHER       -> TRUE

\* Time.now().strftime("%Y-%m-%d"): ten characters
DateChars == <<"Y", "Y", "Y", "Y", "-", "m", "m", "-", "d", "d">>

\* swxsoc.__version__
VersionChars == <<"0", ".", "1">>

\* data.meta[attr_name]: the (value, comment) entry the container stores
Entry(m, attr_name) == PyEntry(m[attr_name][1], m[attr_name][2])

\* not ((attr_name not in data.meta) or (not data.meta[attr_name]))
Present(m, attr_name) == attr_name \in DOMAIN m /\ Truthy(Entry(m, attr_name))

_get_generation_date(m) == PyStr(DateChars)

\* The containers carry no Instrument_mode and no Data_level, so the only
\* part _get_data_type can join is the descriptor; the descriptor a
\* container carries is its stored (value, comment) entry, which "_".join
\* rejects.
_get_data_type(m) ==
    IF Present(m, "Data_type") THEN Entry(m, "Data_type")
    ELSE IF Present(m, "Data_product_descriptor") THEN PyRaises("TypeError")
    ELSE PyStr(<<">">>)

\* f"{spacecraft_id}_{instrument_id}_{data_type_short_name}" of a container
\* without Source_name and Descriptor
LogicalSourceChars == <<"s", "w", "x", "s", "o", "c", "_", "N", "o", "n", "e", "_">>

\* A Logical_source that is missing is built from the parts, Data_type among
\* them: a stored Data_type entry has no split
_get_logical_source(m) ==
    IF Present(m, "Logical_source") THEN Entry(m, "Logical_source")
    ELSE LET data_type == _get_data_type(m)
         IN  CASE data_type.t = "raises" -> data_type
               [] data_type.t = "entry"  -> PyRaises("AttributeError")
               [] OTHER                  -> PyStr(LogicalSourceChars)

_get_swxsoc_version(m) ==
    IF ~Present(m, "SWxSOC_version") THEN PyStr(VersionChars)
    ELSE Entry(m, "SWxSOC_version")

\* getattr(self, attr_schema["derivation_fn"])(data)
CallGlobal(fn, m) ==
    CASE fn = "_get_generation_date" -> _get_generation_date(m)
      [] fn = "_get_data_type"       -> _get_data_type(m)
      [] fn = "_get_swxsoc_version"  -> _get_swxsoc_version(m)
      [] fn = "_get_logical_source"  -> _get_logical_source(m)

IsDerived(item) == item[2].derived

\* derive_global_attributes(data): for every derived rule, in schema order,
\* global_attributes[attr_name] = derivation_fn(data)
derive_global_attributes(gs, m) ==
    LET derived_attributes == SelectSeq(gs, IsDerived)
    IN  [i \in DOMAIN derived_attributes |->
            <<derived_attributes[i][1],
              CallGlobal(derived_attributes[i][2].derivation_fn, m)>>]

\* an unpacking that hands the stored entry on with its two parts exchanged
Unpack2Exchanged(x) ==
    CASE x.t = "entry" -> [raised |-> "none", value |-> x.comment, comment |-> x.value]
      [] x.t = "tuple" -> [raised |-> "none", value |-> x.a, comment |-> x.b]
      [] x.t = "str" /\ Len(x.s) = 2 ->
             [raised |-> "none", value |-> x.s[1], comment |-> x.s[2]]
      [] x.t = "str" -> [raised |-> "ValueError", value |-> None, comment |-> None]
      [] OTHER       -> [raised |-> "TypeError", value |-> None, comment |-> None]

\* `attr_name, (attr_value, attr_comment) = item`: a 2-tuple unpacks, and so
\* does a str of two characters; any other str or tuple is a ValueError, a
\* number a TypeError
Unpack2(x) ==
    CASE x.t = "entry" -> [raised |-> "none", value |-> x.value, comment |-> x.comment]
      [] x.t = "tuple" -> [raised |-> "none", value |-> x.a, comment |-> x.b]
      [] x.t = "str" /\ Len(x.s) = 2 ->
             [raised |-> "none", value |-> x.s[1], comment |-> x.s[2]]
      [] x.t = "str" -> [raised |-> "ValueError", value |-> None, comment |-> None]
      [] OTHER       -> [raised |-> "TypeError", value |-> None, comment |-> None]

\* the schema as the dict the update methods index
SchemaDict(gs) == [name \in Keys(gs) |-> RuleOf(gs, name)]

RECURSIVE DictItems(_)
\* dict.items() of a name -> (value, comment) dict
DictItems(d) ==
    IF DOMAIN d = {} THEN <<>>
    ELSE LET k == CHOOSE x \in DOMAIN d : TRUE
         IN  <<<<k, Entry(d, k)>>>> \o DictItems([x \in DOMAIN d \ {k} |-> d[x]])

\* the exception that ends derive_global_attributes: that of the first
\* routine that raises
RaisedIn(items) ==
    IF \E i \in DOMAIN items : items[i][2].t = "raises"
    THEN items[CHOOSE i \in DOMAIN items :
                  /\ items[i][2].t = "raises"
                  /\ \A j \in 1..(i - 1) : items[j][2].t # "raises"][2].exc
    ELSE "none"

RECURSIVE GlobalPass(_, _, _)
\* one loop of _derive_metadata over global items: unpack each item and hand
\* it to _update_global_attribute; the first item that does not unpack ends
\* the loop with its exception
GlobalPass(items, m, schema) ==
    IF items = <<>> THEN [raised |-> "none", meta |-> m]
    ELSE LET u == Unpack2(items[1][2])
         IN  IF u.raised # "none" THEN [raised |-> u.raised, meta |-> m]
             ELSE GlobalPass(Tail(items),
                             UpdateAttribute(m, schema, items[1][1], u.value, u.comment),
                             schema)

\* the two global loops of _derive_metadata: the defaults, then what
\* derive_global_attributes returns for the meta the defaults left
GlobalLoops(m, gs, dflt) ==
    LET schema == SchemaDict(gs)
        d == GlobalPass(DictItems(dflt), m, schema)
        items == derive_global_attributes(gs, d.meta)
        g == IF RaisedIn(items) # "none" THEN [raised |-> RaisedIn(items), meta |-> d.meta]
             ELSE GlobalPass(items, d.meta, schema)
    IN  IF d.raised # "none" THEN [raised |-> d.raised, at |-> "defaults", meta |-> d.meta]
        ELSE [raised |-> g.raised, at |-> IF g.raised # "none" THEN "globals" ELSE "",
              meta |-> g.meta]

\* ---- per-variable derivation for a spectra variable ----

WCSAXES == <<"W", "C", "S", "A", "X", "E", "S">>

CNAMEi == <<"C", "N", "A", "M", "E", "i">>

CRVALi == <<"C", "R", "V", "A", "L", "i">>

\* the rules of attribute_key that the "spectra" list names; the axis count
\* itself is derived or not
SpectraRules(countDerived) ==
    << <<CNAMEi, [derived |-> TRUE, iterable |-> TRUE, derivation_fn |-> "_get_cnamei"]>>,
       <<CRVALi, [derived |-> TRUE, iterable |-> TRUE, derivation_fn |-> "_get_crvali"]>>,
       <<WCSAXES, [derived |-> countDerived, derivation_fn |-> "_get_wcs_naxis"]>> >>

\* self.wcs_keyword_to_astropy_property: (keyword, property, default)
wcs_keyword_to_astropy_property ==
    << <<"CNAME", "cname", PyStr(<<"N", "o", "N", "a", "m", "e">>)>>,
       <<"CTYPE", "ctype", PyStr(<<"T", "E", "S", "T">>)>>,
       <<"CUNIT", "cunit", PyStr(<<>>)>>,
       <<"CRPIX", "crpix", PyNum(0)>>,
       <<"CRVAL", "crval", PyNum(1)>>,
       <<"CDELT", "cdelt", PyNum(1)>> >>

\* what astropy's coordinate system holds for an axis nobody gave a value
LibraryUnset(prop) ==
    CASE prop \in {"cname", "ctype"} -> PyStr(<<>>)
      [] prop = "cunit"              -> PyUnit(<<>>)
      [] prop \in {"crpix", "crval"} -> PyNum(0)
      [] prop = "cdelt"              -> PyNum(1)

\* the value explicitly given to a property of an axis
Explicit(prop) ==
    CASE prop = "cname" -> PyStr(<<"t", "i", "m", "e">>)
      [] prop = "ctype" -> PyStr(<<"T", "I", "M", "E">>)
      [] prop = "cunit" -> PyUnit(<<"s">>)
      [] OTHER          -> PyNum(5)

\* one property of one axis: given explicitly, or the library's own value
AxisValue(prop, set) ==
    [set |-> set, v |-> IF set THEN Explicit(prop) ELSE LibraryUnset(prop)]

WcsProps == {"cname", "ctype", "cunit", "crpix", "crval", "cdelt"}

\* the coordinate systems with n axes: cname and crval of each axis given
\* or not, nothing else given
WcsOf(n) ==
    {[prop \in WcsProps |->
        [i \in 1..n |-> AxisValue(prop, CASE prop = "cname" -> f[i][1]
                                          [] prop = "crval" -> f[i][2]
                                          [] OTHER          -> FALSE)]] :
        f \in [1..n -> BOOLEAN \X BOOLEAN]}

\* the variable's meta: no WCSAXES, WCSAXES = 0, a bare count, or the
\* (value, comment) entry the container stores
VarMetas(n) ==
    {[x \in {} |-> PyNum(0)]}
        \cup {[x \in {WCSAXES} |-> PyNum(k)] : k \in 0..(MaxAxes + 1)}
        \cup {[x \in {WCSAXES} |->
                 PyTuple(PyNum(n), PyStr(<<"W", "C", "S", " ", "a", "x", "e", "s">>))]}

Cubes == UNION {{[naxis |-> n, wcs |-> w, meta |-> vm] : w \in WcsOf(n), vm \in VarMetas(n)} :
                n \in 1..MaxAxes}

RECURSIVE rstrip(_, _)
\* str.rstrip(ch): drop every trailing ch
rstrip(str, ch) ==
    IF str # <<>> /\ str[Len(str)] = ch THEN rstrip(SubSeq(str, 1, Len(str) - 1), ch)
    ELSE str

\* int(attr_value)
ToInt(x) ==
    IF x.t = "num" THEN [raised |-> "none", value |-> x.n]
    ELSE [raised |-> "TypeError", value |-> 0]

_get_wcs_naxis(var_data) ==
    LET attr_name == WCSAXES
        attr_value ==
            IF attr_name \notin DOMAIN var_data.meta \/ ~Truthy(var_data.meta[attr_name])
            THEN PyNum(var_data.naxis)
            ELSE var_data.meta[attr_name]
    IN  ToInt(attr_value)

_get_num_dimensions(var_data) == _get_wcs_naxis(var_data)

\* the keyword of each per-axis routine (_get_cnamei ... _get_cdelti)
KeywordOf(fn) ==
    CASE fn = "_get_cnamei" -> "CNAME" [] fn = "_get_ctypei" -> "CTYPE"
      [] fn = "_get_cuniti" -> "CUNIT" [] fn = "_get_crpixi" -> "CRPIX"
      [] fn = "_get_crvali" -> "CRVAL" [] fn = "_get_cdelti" -> "CDELT"

\* a lookup that falls back to the keyword's default for an axis the
\* coordinate system has no explicit value for
_get_wcs_dimension_attr_or_default(var_data, keyword, dimension) ==
    LET HasKeyword(x) == x[1] = keyword
        entry == SelectSeq(wcs_keyword_to_astropy_property, HasKeyword)[1]
        values == var_data.wcs[entry[2]]
    IN  IF dimension + 1 \in DOMAIN values /\ values[dimension + 1].set
        THEN [raised |-> "none",
              value |-> IF values[dimension + 1].v.t = "unit"
                        THEN PyStr(values[dimension + 1].v.u)
                        ELSE values[dimension + 1].v]
        ELSE [raised |-> "none", value |-> entry[3]]

\* getattr(var_data.wcs.wcs, prop)[dimension], a unit turned into its string;
\* the default of the table entry is unpacked and not used
_get_wcs_dimension_attr(var_data, keyword, dimension) ==
    LET HasKeyword(x) == x[1] = keyword
        entry == SelectSeq(wcs_keyword_to_astropy_property, HasKeyword)[1]
        prop == entry[2]
        values == var_data.wcs[prop]
    IN  IF dimension + 1 \notin DOMAIN values
        THEN [raised |-> "IndexError", value |-> PyNum(0)]
        ELSE LET property_value == values[dimension + 1].v
             IN  [raised |-> "none",
                  value |-> IF property_value.t = "unit"
                            THEN PyStr(property_value.u)
                            ELSE property_value]

\* OrderedDict assignment: a new key goes last, a key already there keeps
\* its place
SetItem(items, key, value) ==
    IF key \in Keys(items)
    THEN [i \in DOMAIN items |-> IF items[i][1] = key THEN <<key, value>> ELSE items[i]]
    ELSE Append(items, <<key, value>>)

NoAttributes == [raised |-> "none", items |-> <<>>, calls |-> <<>>]

RECURSIVE DeriveDimensions(_, _, _, _, _, _)
\* `for dimension_i in range(num_dimensions)`, from dimension_i on
DeriveDimensions(var_data, attr_root, fn, dimension_i, num_dimensions, acc) ==
    IF dimension_i >= num_dimensions THEN acc
    ELSE LET r == _get_wcs_dimension_attr(var_data, KeywordOf(fn), dimension_i)
             called == Append(acc.calls, <<fn, dimension_i>>)
         IN  IF r.raised # "none"
             THEN [acc EXCEPT !.raised = r.raised, !.calls = called]
             ELSE DeriveDimensions(var_data, attr_root, fn, dimension_i + 1, num_dimensions,
                      [acc EXCEPT !.calls = called,
                                  !.items = SetItem(acc.items,
                                                    attr_root \o <<ToString(dimension_i + 1)>>,
                                                    r.value)])

RECURSIVE DeriveRules(_, _, _, _)
\* the loop of derive_measurement_attributes over the derived rules.  data is
\* the SWXData when hasData, and a data structure of it (which has no .data)
\* when the call comes from _derive_metadata.
DeriveRules(rules, var_data, hasData, acc) ==
    IF rules = <<>> \/ acc.raised # "none" THEN acc
    ELSE LET attr_name == rules[1][1]
             attr_schema == rules[1][2]
             fn == attr_schema.derivation_fn
             n == _get_num_dimensions(var_data)
             next ==
                 IF "iterable" \in DOMAIN attr_schema /\ attr_schema.iterable
                 THEN IF n.raised # "none" THEN [acc EXCEPT !.raised = n.raised]
                      ELSE DeriveDimensions(var_data, rstrip(attr_name, "i"), fn, 0, n.value, acc)
                 \* the one rule here that is not iterable names _get_wcs_naxis
                 ELSE IF ~hasData THEN [acc EXCEPT !.raised = "AttributeError"]
                      ELSE IF n.raised # "none"
                           THEN [acc EXCEPT !.raised = n.raised,
                                            !.calls = Append(acc.calls, <<fn, -1>>)]
                           ELSE [acc EXCEPT !.calls = Append(acc.calls, <<fn, -1>>),
                                            !.items = SetItem(acc.items, attr_name, PyNum(n.value))]
         IN  DeriveRules(Tail(rules), var_data, hasData, next)

\* derive_measurement_attributes(data, var_name) for a variable that has a
\* coordinate system; the type guessed for its array is handed to the
\* routines, which do not read it
derive_measurement_attributes(vs, var_data, hasData) ==
    DeriveRules(SelectSeq(vs, IsDerived), var_data, hasData, NoAttributes)

\* _update_measurement_attribute on the variable's meta; subscripting a bare
\* number is a TypeError
UpdateVarEntry(vm, vs, attr_name, attr_value, attr_comment) ==
    LET set == [raised |-> "none",
                meta |-> DictSet(vm, attr_name, PyTuple(attr_value, attr_comment))]
        leave == [raised |-> "none", meta |-> vm]
    IN  IF attr_name \notin DOMAIN vm THEN set
        ELSE IF vm[attr_name].t = "num" THEN [raised |-> "TypeError", meta |-> vm]
        ELSE IF vm[attr_name].a # PyNone /\ attr_name \in Keys(vs)
             THEN IF vm[attr_name].a # attr_value /\ OverwriteFlag(RuleOf(vs, attr_name))
                  THEN set ELSE leave
             ELSE set

RECURSIVE VariablePass(_, _, _)
\* the loop of _derive_metadata over the derived items of one variable
VariablePass(items, vm, vs) ==
    IF items = <<>> THEN [raised |-> "none", meta |-> vm]
    ELSE LET x == items[1][2]
             u == Unpack2(x)
             r == UpdateVarEntry(vm, vs, items[1][1],
                                 IF x.t = "str" THEN PyStr(<<u.value>>) ELSE u.value,
                                 IF x.t = "str" THEN PyStr(<<u.comment>>) ELSE u.comment)
         IN  IF u.raised # "none" THEN [raised |-> u.raised, meta |-> vm]
             ELSE IF r.raised # "none" THEN r
             ELSE VariablePass(Tail(items), r.meta, vs)

\* a pass that skips the variable when its derivation raises
MeasurementPassSkipping(vs, var_data) ==
    IF var_data = NoCube THEN [raised |-> "none", meta |-> EmptyDict]
    ELSE LET r == derive_measurement_attributes(vs, var_data, FALSE)
         IN  IF r.raised # "none" THEN [raised |-> "none", meta |-> var_data.meta]
             ELSE VariablePass(r.items, var_data.meta, vs)

\* the measurement loops of _derive_metadata for the container's spectra
\* variable: derive_measurement_attributes(data_structure, col), then the
\* loop over its items
MeasurementPass(vs, var_data) ==
    IF var_data = NoCube THEN [raised |-> "none", meta |-> EmptyDict]
    ELSE LET r == derive_measurement_attributes(vs, var_data, FALSE)
         IN  IF r.raised # "none" THEN [raised |-> r.raised, meta |-> var_data.meta]
             ELSE VariablePass(r.items, var_data.meta, vs)

\* the container's meta when derivation starts
MetaTables ==
    {[a \in S |-> <<"v1", "">>] :
        S \in SUBSET {"Data_type", "Data_product_descriptor", "SWxSOC_version"}}

InitDerive ==
    /\ gschema \in {gs \in RuleTables(GlobalRuleNames) : \A i \in DOMAIN gs : gs[i][2].required}
    /\ vschema \in {SpectraRules(d) : d \in BOOLEAN}
    /\ defaults = [a \in {"Mission"} |-> <<"default", "">>]
    /\ meta \in MetaTables
    /\ cube \in Cubes \cup {NoCube}
    /\ template = NoTemplate
    /\ gattrs = NotDerived /\ mattrs = NotDerived /\ raised = NotCalled
    /\ varMeta = EmptyDict /\ last = NoCall /\ nops = 0
    /\ meta2 = EmptyDict /\ varMeta2 = EmptyDict /\ dec = NoDecision
    /\ TypeIdle
    /\ LaterIdle

\* schema.derive_global_attributes(data)
DeriveGlobalAttributes ==
    /\ gattrs = NotDerived
    /\ gattrs' = [raised |-> RaisedIn(derive_global_attributes(gschema, meta)),
                  items |-> derive_global_attributes(gschema, meta)]
    /\ UNCHANGED <<gschema, vschema, defaults, template, cube, mattrs, raised, meta,
                   otherThanSchema>>

\* schema.derive_measurement_attributes(data, var_name) for the spectra variable
DeriveMeasurementAttributes ==
    /\ cube # NoCube
    /\ mattrs = NotDerived
    /\ mattrs' = derive_measurement_attributes(vschema, cube, TRUE)
    /\ UNCHANGED <<gschema, vschema, defaults, template, cube, gattrs, raised, meta,
                   otherThanSchema>>

\* SWXData._derive_metadata() on a container with the global meta m and the
\* spectra variable c
_derive_metadata(m, c, gs, vs, dflt) ==
    LET g == GlobalLoops(m, gs, dflt)
        v == MeasurementPass(vs, c)
    IN  [meta |-> g.meta,
         raised |-> IF g.raised # "none" THEN [exc |-> g.raised, at |-> g.at]
                    ELSE IF v.raised # "none" THEN [exc |-> v.raised, at |-> "variables"]
                    ELSE [exc |-> "none", at |-> ""],
         cube |-> IF g.raised = "none" /\ c # NoCube THEN [c EXCEPT !.meta = v.meta] ELSE c]

\* SWXData._derive_metadata(): the defaults, the derived global attributes,
\* then the variables; it ends at the first exception.  The time column has
\* no derived rule in these schemas and there are no default variable
\* attributes.
DeriveMetadata ==
    /\ raised = NotCalled
    /\ LET r == _derive_metadata(meta, cube, gschema, vschema, defaults)
       IN  /\ meta' = r.meta
           /\ raised' = r.raised
           /\ cube' = r.cube
    /\ UNCHANGED <<gschema, vschema, defaults, template, gattrs, mattrs, otherThanSchema>>

NextDerive == DeriveGlobalAttributes \/ DeriveMeasurementAttributes \/ DeriveMetadata

SpecDerive == InitDerive /\ [][NextDerive]_vars

(***************************************************************************)
(* Properties of derivation                                                *)
(***************************************************************************)
DerivedNames(schema) == {schema[i][1] : i \in {j \in DOMAIN schema : schema[j][2].derived}}

\* C8: the result of derive_global_attributes has exactly the derived
\* attributes as keys, each entry is a (value, comment) pair with the empty
\* comment, and the derivation pass of the container unpacks every entry.
C8_GlobalEntriesArePairs ==
    /\ gattrs # NotDerived =>
          /\ Keys(gattrs.items) = DerivedNames(gschema)
          /\ \A i \in DOMAIN gattrs.items :
                /\ gattrs.items[i][2].t \in {"tuple", "entry"}
                /\ gattrs.items[i][2].t = "entry" => gattrs.items[i][2].comment = ""
    /\ raised.at # "globals"

\* the rules that are derived and iterable
IterableRules == {i \in DOMAIN vschema :
                     /\ vschema[i][2].derived
                     /\ "iterable" \in DOMAIN vschema[i][2]
                     /\ vschema[i][2].iterable}

\* the explicit axis count of the variable when it has one, else the axis
\* count of its coordinate system
AxisCount ==
    IF WCSAXES \in DOMAIN cube.meta /\ Truthy(cube.meta[WCSAXES])
    THEN IF cube.meta[WCSAXES].t = "tuple" THEN cube.meta[WCSAXES].a.n
         ELSE cube.meta[WCSAXES].n
    ELSE cube.naxis

\* the rule name without its index letter
Root(name) == SubSeq(name, 1, Len(name) - 1)

Indexed(name, k) == Root(name) \o <<ToString(k)>>

\* C9: for every derived iterable rule the routine is invoked exactly once
\* for each axis index 0..N-1, N being the explicit axis count when set and
\* the coordinate system's otherwise, and the results are stored under
\* exactly root1 .. rootN, nothing under the rule name itself.
C9_IterableRuleStoresEveryAxis ==
    mattrs # NotDerived =>
        /\ mattrs.raised = "none"
        /\ \A i \in IterableRules :
              LET name == vschema[i][1]
                  fn == vschema[i][2].derivation_fn
              IN  /\ \A k \in 1..(MaxAxes + 2) :
                        Indexed(name, k) \in Keys(mattrs.items) <=> k <= AxisCount
                  /\ name \notin Keys(mattrs.items)
                  /\ \A d \in 0..(MaxAxes + 1) :
                        Cardinality({j \in DOMAIN mattrs.calls : mattrs.calls[j] = <<fn, d>>})
                            = IF d < AxisCount THEN 1 ELSE 0

ItemValue(items, key) == items[CHOOSE i \in DOMAIN items : items[i][1] = key][2]

\* C10: the value derived for an axis is the coordinate system's value for
\* that axis when it has one and the keyword's default otherwise, and no
\* axis within the resolved axis count makes the derivation fail.
C10_AxisValueOrDefault ==
    mattrs # NotDerived =>
        /\ mattrs.raised # "IndexError"
        /\ mattrs.raised = "none" =>
              \A i \in IterableRules : \A k \in 1..AxisCount :
                  ItemValue(mattrs.items, Indexed(vschema[i][1], k)) =
                      _get_wcs_dimension_attr_or_default(
                          cube, KeywordOf(vschema[i][2].derivation_fn), k - 1).value

(***************************************************************************)
(* The derivation routines of SWXSchema, called one at a time.  args is    *)
(* the call: the routine, the schema it reads and its arguments; ret is    *)
(* what the call returned or raised.                                       *)
(*                                                                         *)
(* A value of a variable's meta is [form |-> "bare", value |-> s] when the *)
(* dict holds the string s, and [form |-> "pair", value |-> s,             *)
(* comment |-> c] when it holds the tuple (s, c), which is what            *)
(* SWXData.update_metadata_attributes stores for every attribute.          *)
(***************************************************************************)
Bare(s) == [form |-> "bare", value |-> s]

Pair(s, c) == [form |-> "pair", value |-> s, comment |-> c]

\* the names of the rules of attribute_key, in file order
AttributeKeyNames == <<"FIELDNAM", "TIME_BASE", "WCSAXES">>

\* the routine each rule names
RoutineOf(name) ==
    CASE name = "FIELDNAM"  -> "_get_fieldnam"
      [] name = "TIME_BASE" -> "_get_time_base"
      [] name = "WCSAXES"   -> "_get_wcs_naxis"

\* variable_attribute_schema: attribute_key, and under the name of each class
\* the list of the rules that apply to it
VariableAttributeSchemas ==
    { [attribute_key |-> [i \in DOMAIN AttributeKeyNames |->
                             <<AttributeKeyNames[i],
                               [derived |-> d[i], derivation_fn |-> RoutineOf(AttributeKeyNames[i])]>>],
       data |-> da, support_data |-> su, metadata |-> me, epoch |-> ep, spectra |-> sp] :
        d \in [DOMAIN AttributeKeyNames -> BOOLEAN],
        da \in {{"FIELDNAM"}, {"FIELDNAM", "WCSAXES"}},
        su \in {{}, {"FIELDNAM"}},
        me \in {{"FIELDNAM"}, {"TIME_BASE"}},
        ep \in {{"TIME_BASE"}, {"TIME_BASE", "FIELDNAM"}},
        sp \in {{}, {"WCSAXES"}} }

\* self.variable_attribute_schema[var_type] for one of the three classes
ClassList(vas, var_type) ==
    CASE var_type = "data"         -> vas.data
      [] var_type = "support_data" -> vas.support_data
      [] var_type = "metadata"     -> vas.metadata

VarTypeValues == {"", "data", "support_data", "metadata", "ignore_data"}

\* var_data.meta, as far as VAR_TYPE goes
VarTypeMetas ==
    {[a \in {} |-> Bare("")]}
        \cup {[a \in {"VAR_TYPE"} |-> Bare(v)] : v \in VarTypeValues}
        \cup {[a \in {"VAR_TYPE"} |-> Pair(v, "")] : v \in VarTypeValues}

\* a value Python takes for false: the empty string; a tuple of two is true
Falsy(entry) == entry.form = "bare" /\ entry.value = ""

_get_var_type(var_data) ==
    LET attr_name == "VAR_TYPE"
    IN  IF attr_name \notin DOMAIN var_data.meta \/ Falsy(var_data.meta[attr_name])
        THEN Bare("data")
        ELSE var_data.meta[attr_name]

\* var_type in ["data", "support_data", "metadata"]: a tuple equals no string
InClassNames(var_type) ==
    var_type.form = "bare" /\ var_type.value \in {"data", "support_data", "metadata"}

\* list(filter(... in names and attr_info[1]["derived"], attribute_key.items()))
FilterDerived(vas, names) ==
    SelectSeq(vas.attribute_key, LAMBDA attr_info : attr_info[1] \in names /\ attr_info[2].derived)

\* derived_attributes of derive_measurement_attributes: the rules selected
\* for the variable
derived_attributes(vas, var_name, var_data) ==
    LET var_type == _get_var_type(var_data)
        var_atttibutes == IF InClassNames(var_type)
                          THEN FilterDerived(vas, ClassList(vas, var_type.value))
                          ELSE <<>>
        time_attributes == IF var_name = "time" THEN FilterDerived(vas, vas.epoch) ELSE <<>>
        spectra_attributes == IF var_data.wcs THEN FilterDerived(vas, vas.spectra) ELSE <<>>
    IN  var_atttibutes \o time_attributes \o spectra_attributes

RECURSIVE measurement_attributes(_, _)
\* the loop over derived_attributes: each rule's routine is called and its
\* result stored under the rule's name (none of these rules is iterable)
measurement_attributes(derived, acc) ==
    IF derived = <<>> THEN acc
    ELSE LET attr_name == derived[1][1]
             attr_schema == derived[1][2]
         IN  measurement_attributes(Tail(derived),
                 [a \in DOMAIN acc \cup {attr_name} |->
                     IF a = attr_name THEN attr_schema.derivation_fn ELSE acc[a]])

\* the calls of derive_measurement_attributes(data, var_name)
DeriveCalls ==
    { [fn |-> "derive_measurement_attributes", schema |-> vas, var_name |-> n,
       var_data |-> [meta |-> m, wcs |-> w]] :
        vas \in VariableAttributeSchemas, n \in {"time", "flux"},
        m \in VarTypeMetas, w \in BOOLEAN }

\* the longest time axis
MaxSamples == 2

\* swxsoc.config["general"]["default_timeseries_key"]
default_timeseries_key == "Epoch"

\* data.data["timeseries"]: the time axes of the container, each with the
\* number of its samples
TimeseriesDicts ==
    UNION { [keys -> 1..MaxSamples] : keys \in (SUBSET {"Epoch", "Epoch2"}) \ {{}} }

\* SWXData.get_timeseres_epoch_key(timeseries_dict, var_data, var_data.meta)
get_timeseres_epoch_key(timeseries_dict, var_data) ==
    LET candidates == {k \in DOMAIN timeseries_dict : timeseries_dict[k] = var_data.size}
    IN  IF Cardinality(DOMAIN timeseries_dict) > 1
        THEN [raised |-> "ValueError", epoch_key |-> ""]
        ELSE IF candidates = {}
             THEN [raised |-> "ValueError", epoch_key |-> ""]
             ELSE [raised |-> "none", epoch_key |-> CHOOSE k \in candidates : TRUE]

\* a routine that answers the configured key whatever the container holds
_get_depend_configured(var_data, kwargs) ==
    [raised |-> "none", epoch_key |-> default_timeseries_key]

_get_depend(var_data, kwargs) ==
    IF "timeseries_dict" \in DOMAIN kwargs
    THEN get_timeseres_epoch_key(kwargs["timeseries_dict"], var_data)
    ELSE [raised |-> "none", epoch_key |-> default_timeseries_key]

\* the calls of _get_depend(var_name, var_data, guess_type, **kwargs)
DependCalls ==
    { [fn |-> "_get_depend", var_name |-> n, var_data |-> [size |-> z], kwargs |-> kw] :
        n \in {"time", "flux"}, z \in 1..(MaxSamples + 1),
        kw \in {[k \in {} |-> 0]} \cup {[k \in {"timeseries_dict"} |-> ts] : ts \in TimeseriesDicts} }

\* the values the fill, minimum and maximum routines return: a Python
\* integer, a float, a tuple of two floats, a string, an astropy Time
IntValue(x) == [kind |-> "int", num |-> x]

FloatValue(f) == [kind |-> "float", float |-> f]

FloatPair(f, g) == [kind |-> "floats", first |-> f, second |-> g]

StrValue(c) == [kind |-> "str", chars |-> c]

TimeValue(isot) == [kind |-> "Time", isot |-> isot]

\* the i of CDF_INT{i} and CDF_UINT{i}
SizeOf(t) ==
    CASE t \in {"CDF_INT1", "CDF_UINT1"} -> 1
      [] t \in {"CDF_INT2", "CDF_UINT2"} -> 2
      [] t \in {"CDF_INT4", "CDF_UINT4"} -> 4
      [] t = "CDF_INT8"                  -> 8

\* fillvals of _fillval_helper before the equivalent pairs are added
fillvals(t) ==
    CASE t \in {"CDF_INT1", "CDF_INT2", "CDF_INT4", "CDF_INT8"} ->
             IntValue(Negate(Pow2(8 * SizeOf(t) - 1)))
      [] t \in {"CDF_UINT1", "CDF_UINT2", "CDF_UINT4"} ->
             IntValue(Num(FALSE, 8 * SizeOf(t), -1))
      [] t = "CDF_EPOCH16" -> FloatPair("-1e31", "-1e31")
      [] t \in {"CDF_REAL8", "CDF_REAL4"} -> FloatValue("-1e31")
      [] t \in {"CDF_CHAR", "CDF_UCHAR"} -> StrValue(" ")

\* the equivalent pairs: (cdf_t, equiv)
EquivalentPairs ==
    << <<"CDF_TIME_TT2000", "CDF_INT8">>, <<"CDF_EPOCH", "CDF_REAL8">>,
       <<"CDF_BYTE", "CDF_INT1">>, <<"CDF_FLOAT", "CDF_REAL4">>,
       <<"CDF_DOUBLE", "CDF_REAL8">> >>

_fillval_helper(cdf_type) ==
    IF \E i \in DOMAIN EquivalentPairs : EquivalentPairs[i][1] = cdf_type
    THEN fillvals(EquivalentPairs[CHOOSE i \in DOMAIN EquivalentPairs :
                                      EquivalentPairs[i][1] = cdf_type][2])
    ELSE fillvals(cdf_type)

\* a routine that reads the table for every type
_get_fillval_table_only(guess_type) == _fillval_helper(guess_type)

_get_fillval(guess_type) ==
    IF guess_type = "CDF_TIME_TT2000"
    THEN TimeValue("9999-12-31T23:59:59.999999")
    ELSE _fillval_helper(guess_type)

\* (minimum, maximum) of a CDF type; np.finfo of a float type is named, not
\* computed
_get_minmax(cdftype) ==
    LET dtype == NumpyType(cdftype)
    IN  IF cdftype \in timetypes
        THEN <<TimeValue("1900-1-1T00:00:00.000"), TimeValue("2250-1-1T00:00:00.000")>>
        ELSE IF dtype \in IntDtypes
             THEN <<IntValue(DtypeMin(dtype)), IntValue(DtypeMax(dtype))>>
             ELSE IF dtype = "float32"
                  THEN <<FloatValue("finfo(float32).min"), FloatValue("finfo(float32).max")>>
                  ELSE <<FloatValue("finfo(float64).min"), FloatValue("finfo(float64).max")>>

_get_validmin(guess_type) == _get_minmax(guess_type)[1]

_get_validmax(guess_type) == _get_minmax(guess_type)[2]

\* the calls of _get_fillval(var_name, var_data, guess_type)
FillvalCalls ==
    { [fn |-> "_get_fillval", var_name |-> n, guess_type |-> t] :
        n \in {"time", "flux"}, t \in CdfTypes }

InitRoutines ==
    /\ args \in DeriveCalls \cup DependCalls \cup FillvalCalls
    /\ ret = NoReturn
    /\ IoIdle /\ ValidationIdle /\ RangeIdle /\ RoundTripIdle /\ FilenameIdle /\ RepassIdle /\ ContainerIdle /\ DiskIdle /\ SearchIdle
    /\ MergeIdle
    /\ TypeIdle
    /\ SchemaIdle

\* schema.derive_measurement_attributes(data, var_name)
DeriveVariableAttributes ==
    /\ args.fn = "derive_measurement_attributes"
    /\ ret = NoReturn
    /\ LET derived == derived_attributes(args.schema, args.var_name, args.var_data)
       IN  ret' = [fn |-> args.fn,
                   derived_attributes |-> Firsts(derived),
                   measurement_attributes |-> measurement_attributes(derived, <<>>)]
    /\ UNCHANGED <<args, otherThanRoutines>>

\* schema._get_depend(var_name, var_data, guess_type, **kwargs)
GetDepend ==
    /\ args.fn = "_get_depend"
    /\ ret = NoReturn
    /\ LET r == _get_depend(args.var_data, args.kwargs)
       IN  ret' = [fn |-> args.fn, raised |-> r.raised, epoch_key |-> r.epoch_key]
    /\ UNCHANGED <<args, otherThanRoutines>>

\* schema._get_fillval(var_name, var_data, guess_type)
GetFillval ==
    /\ args.fn = "_get_fillval"
    /\ ret = NoReturn
    /\ ret' = [fn |-> args.fn, fillval |-> _get_fillval(args.guess_type)]
    /\ UNCHANGED <<args, otherThanRoutines>>

NextRoutines ==
    \/ DeriveVariableAttributes
    \/ GetDepend
    \/ GetFillval

SpecRoutines == InitRoutines /\ [][NextRoutines]_vars

\* the class the claim reads from VAR_TYPE: its value, data when VAR_TYPE is
\* unset or empty
ClassOfVariable(var_data) ==
    IF "VAR_TYPE" \notin DOMAIN var_data.meta \/ var_data.meta["VAR_TYPE"].value = ""
    THEN "data"
    ELSE var_data.meta["VAR_TYPE"].value

\* the names of the derived rules among names
DerivedAmong(vas, names) ==
    {vas.attribute_key[i][1] : i \in {j \in DOMAIN vas.attribute_key :
        vas.attribute_key[j][1] \in names /\ vas.attribute_key[j][2].derived}}

\* the rules the schema lists for a class: none for a class it does not know
ListedFor(vas, class) ==
    IF class \in {"data", "support_data", "metadata"} THEN ClassList(vas, class) ELSE {}

\* C11: the attributes derived for a variable are exactly the derived rules
\* listed for its class (VAR_TYPE, data when unset or empty), with the
\* derived epoch rules iff it is the time axis and the derived spectra rules
\* iff it carries a coordinate system
C11_DerivedSetIsUnionOfClassRules ==
    ret.fn = "derive_measurement_attributes" =>
        LET vas == args.schema
            expected ==
                DerivedAmong(vas, ListedFor(vas, ClassOfVariable(args.var_data)))
                \cup (IF args.var_name = "time" THEN DerivedAmong(vas, vas.epoch) ELSE {})
                \cup (IF args.var_data.wcs THEN DerivedAmong(vas, vas.spectra) ELSE {})
        IN  DOMAIN ret.measurement_attributes = expected

\* a state in which derivation ran for a variable whose VAR_TYPE is the
\* stored pair ("support_data", "")
C11_Witness ==
    /\ ret.fn = "derive_measurement_attributes"
    /\ "VAR_TYPE" \in DOMAIN args.var_data.meta
    /\ args.var_data.meta["VAR_TYPE"] = Pair("support_data", "")

\* the time axes of the call whose length is the variable's element count
MatchingAxes == {k \in DOMAIN args.kwargs["timeseries_dict"] :
                    args.kwargs["timeseries_dict"][k] = args.var_data.size}

SignedTypes == {"CDF_INT1", "CDF_INT2", "CDF_INT4", "CDF_INT8", "CDF_BYTE"}

UnsignedTypes == {"CDF_UINT1", "CDF_UINT2", "CDF_UINT4"}

FloatTypes == {"CDF_REAL4", "CDF_REAL8", "CDF_FLOAT", "CDF_DOUBLE"}

CharTypes == {"CDF_CHAR", "CDF_UCHAR"}

FarFuture == TimeValue("9999-12-31T23:59:59.999999")

\* the fill value the table of the claim gives a type that is not temporal
NonTemporalFill(t) ==
    CASE t \in SignedTypes   -> _get_validmin(t)
      [] t \in UnsignedTypes -> _get_validmax(t)
      [] t \in FloatTypes    -> FloatValue("-1e31")
      [] t \in CharTypes     -> StrValue(" ")

\* aliased types have identical fill values
AliasesAgree ==
    /\ _get_fillval("CDF_BYTE") = _get_fillval("CDF_INT1")
    /\ _get_fillval("CDF_FLOAT") = _get_fillval("CDF_REAL4")
    /\ _get_fillval("CDF_DOUBLE") = _get_fillval("CDF_REAL8")

\* C14 as stated: the fill value depends on the storage type alone; signed
\* integers get their most negative value and unsigned their maximum (the
\* bounds of valid-min/valid-max), floats -1e31, characters a space, every
\* temporal type the far-future date, and aliased types agree
C14_FillvalEveryTemporalFarFuture ==
    ret.fn = "_get_fillval" =>
        /\ ret.fillval = (IF args.guess_type \in timetypes THEN FarFuture
                          ELSE NonTemporalFill(args.guess_type))
        /\ AliasesAgree

\* C14 amended: as stated, except that among the temporal types only the
\* integer-nanosecond type gets the far-future date; the 8-byte epoch gets
\* -1e31 and the 16-byte epoch the pair (-1e31, -1e31)
C14_FillvalTable ==
    ret.fn = "_get_fillval" =>
        /\ ret.fillval =
               (CASE args.guess_type = "CDF_TIME_TT2000" -> FarFuture
                  [] args.guess_type = "CDF_EPOCH"       -> FloatValue("-1e31")
                  [] args.guess_type = "CDF_EPOCH16"     -> FloatPair("-1e31", "-1e31")
                  [] OTHER -> NonTemporalFill(args.guess_type))
        /\ AliasesAgree

\* the fill value of the 8-byte epoch type was derived
C14_Witness == ret.fn = "_get_fillval" /\ args.guess_type = "CDF_EPOCH"

\* C13: when derive_measurement_attributes raises in a pass that got as far
\* as the variables, _derive_metadata ends with that exception and stores
\* nothing for the variable: the error reaches the caller of the pass
C13_DerivationErrorPropagates ==
    [][(raised = NotCalled /\ raised' # NotCalled /\ cube # NoCube
            /\ raised'.at \notin {"defaults", "globals"}
            /\ derive_measurement_attributes(vschema, cube, FALSE).raised # "none")
        => /\ raised'.exc = derive_measurement_attributes(vschema, cube, FALSE).raised
           /\ raised'.at = "variables"
           /\ cube'.meta = cube.meta]_vars

\* a pass over a container whose spectra variable has more axes set than its
\* coordinate system holds ended with the routine's IndexError
C13_Witness ==
    /\ raised.at = "variables"
    /\ raised.exc = "IndexError"
    /\ cube # NoCube

(***************************************************************************)
(* CDFHandler.save_data (util/io.py): the conversion of the container's    *)
(* global and variable attributes to the attributes of the CDF file.  An   *)
(* entry of a meta dict is Pair(v, c), Bare(v) or a tuple of three; the    *)
(* value v may be None.  A dict is the sequence of its items, in order.    *)
(***************************************************************************)
Triple == [form |-> "triple"]

\* what a meta dict may hold under a name
MetaEntries == {Pair("val", ""), Pair(None, ""), Bare("val"), Bare(None), Triple}

\* the dicts with keys among names, in the order of names
RECURSIVE MetaDicts(_, _)
MetaDicts(names, entries) ==
    IF names = <<>> THEN {<<>>}
    ELSE LET rest == MetaDicts(Tail(names), entries)
         IN  rest \cup {<<<<names[1], e>>>> \o r : e \in entries, r \in rest}

\* a check that lets through whatever is not a tuple of another length
IsPairLenient(contents) == contents.form # "triple"

\* isinstance(contents, tuple) and len(contents) == 2
IsPair(contents) == contents.form = "pair"

\* target, = contents: unpacking the entry into two names
UnpackEntry(contents) ==
    CASE contents.form = "pair"     -> [raised |-> "none", value |-> contents.value]
      [] contents.form = "triple"   -> [raised |-> "ValueError", value |-> None]
      [] contents.value = None      -> [raised |-> "TypeError", value |-> None]
      [] OTHER                      -> [raised |-> "ValueError", value |-> None]

RECURSIVE _convert_global_attributes_to_cdf(_, _)
\* the loop over data.meta.items(); attrs is cdf_file.attrs so far
_convert_global_attributes_to_cdf(items, attrs) ==
    IF items = <<>> THEN [raised |-> "none", attrs |-> attrs]
    ELSE LET attr_name == items[1][1]
             attr_contents == items[1][2]
         IN  IF ~IsPair(attr_contents)
             THEN [raised |-> "ValueError", attrs |-> attrs]
             ELSE _convert_global_attributes_to_cdf(Tail(items),
                      [a \in DOMAIN attrs \cup {attr_name} |->
                          IF a = attr_name
                          THEN IF attr_contents.value = None THEN "" ELSE attr_contents.value
                          ELSE attrs[a]])

RECURSIVE _convert_variable_attributes_to_cdf(_, _)
\* the loop over var_data.meta.items(); attrs is cdf_file[var_name].attrs
_convert_variable_attributes_to_cdf(items, attrs) ==
    IF items = <<>> THEN [raised |-> "none", attrs |-> attrs]
    ELSE LET var_attr_name == items[1][1]
             var_attr_contents == items[1][2]
         IN  IF ~IsPair(var_attr_contents)
             THEN [raised |-> "ValueError", attrs |-> attrs]
             ELSE IF var_attr_contents.value = None
                  THEN [raised |-> "ValueError", attrs |-> attrs]
                  ELSE _convert_variable_attributes_to_cdf(Tail(items),
                           [a \in DOMAIN attrs \cup {var_attr_name} |->
                               IF a = var_attr_name THEN var_attr_contents.value ELSE attrs[a]])

RECURSIVE _convert_variables_to_cdf(_, _)
\* the loops over the variables (the columns of the time series, then the
\* support variables, then the spectra): each is added to the file, then
\* its attributes; zvars is the variables of the file so far
_convert_variables_to_cdf(variables, zvars) ==
    IF variables = <<>> THEN [raised |-> "none", zvars |-> zvars]
    ELSE LET var_name == IF variables[1].name = "time" THEN "Epoch" ELSE variables[1].name
             r == _convert_variable_attributes_to_cdf(variables[1].meta, NothingWritten)
             \* the support variables are written with recVary=False
             added == Append(zvars, [name |-> var_name,
                                     rv |-> variables[1].structure # "support",
                                     shape |-> variables[1].shape,
                                     attrs |-> r.attrs])
         IN  IF r.raised # "none" THEN [raised |-> r.raised, zvars |-> added]
             ELSE _convert_variables_to_cdf(Tail(variables), added)

\* data.meta[name]
Lookup(items, name) ==
    IF \E i \in DOMAIN items : items[i][1] = name
    THEN [raised |-> "none", contents |-> items[CHOOSE i \in DOMAIN items : items[i][1] = name][2]]
    ELSE [raised |-> "KeyError", contents |-> Triple]

\* save_data(data, file_path, overwrite) into a directory that holds no file
\* of the name; container is the argument data
save_data(container, overwrite) ==
    LET found == Lookup(container.meta, "Logical_file_id")
        id == UnpackEntry(found.contents)
        g == _convert_global_attributes_to_cdf(container.meta, NothingWritten)
        v == _convert_variables_to_cdf(container.variables, <<>>)
    IN  IF found.raised # "none" THEN [outcome |-> found.raised, file |-> NoFile]
        ELSE IF id.raised # "none" THEN [outcome |-> id.raised, file |-> NoFile]
        \* logical_file_id + ".cdf"
        ELSE IF overwrite /\ id.value = None THEN [outcome |-> "TypeError", file |-> NoFile]
        ELSE IF g.raised # "none"
             THEN [outcome |-> g.raised,
                   file |-> [created |-> TRUE, attrs |-> g.attrs, zvars |-> <<>>]]
        ELSE IF v.raised # "none"
             THEN [outcome |-> v.raised,
                   file |-> [created |-> TRUE, attrs |-> g.attrs, zvars |-> v.zvars]]
        ELSE [outcome |-> "returned",
              file |-> [created |-> TRUE, attrs |-> g.attrs, zvars |-> v.zvars]]

\* the containers handed to save: the global attributes, and the meta of the
\* time column and of one measurement
Containers ==
    { [meta |-> m,
       variables |-> << [name |-> "time", structure |-> "timeseries", shape |-> <<2>>, meta |-> t],
                        [name |-> "flux", structure |-> "timeseries", shape |-> <<2>>, meta |-> f] >>] :
        m \in MetaDicts(<<"Logical_file_id", "Mission">>, MetaEntries),
        t \in MetaDicts(<<"CATDESC">>, MetaEntries),
        f \in MetaDicts(<<"CATDESC", "UNITS">>, {Pair("val", ""), Pair(None, ""), Bare("val")}) }

InitIo ==
    /\ attributes \in {[data |-> d, overwrite |-> o] : d \in Containers, o \in BOOLEAN}
    /\ written = NotWritten
    /\ RoutineIdle /\ ValidationIdle /\ RangeIdle /\ RoundTripIdle /\ FilenameIdle /\ RepassIdle /\ ContainerIdle /\ DiskIdle /\ SearchIdle
    /\ MergeIdle
    /\ TypeIdle
    /\ SchemaIdle

\* SWXData.save(output_path, overwrite): handler.save_data(data=self, ...)
Save ==
    /\ written = NotWritten
    /\ written' = save_data(attributes.data, attributes.overwrite)
    /\ UNCHANGED <<attributes, otherThanIo>>

NextIo == Save

SpecIo == InitIo /\ [][NextIo]_vars

\* the entries of a dict
EntriesOf(items) == {items[i][2] : i \in DOMAIN items}

\* C15: persisting a container with a global attribute whose value is None
\* raises, and nothing is written for it
C15_NoneGlobalAttributeRaises ==
    (written # NotWritten /\ Pair(None, "") \in EntriesOf(attributes.data.meta)) =>
        written.outcome # "returned"

\* an entry that is not a (value, comment) pair, or whose value is None
BadEntry(e) == e.form # "pair" \/ e.value = None

\* C16 as stated: save raises ValueError whenever an attribute entry of a
\* variable is not a (value, comment) pair or is a pair with the value None
C16_BadVariableAttributeRaisesValueError ==
    (written # NotWritten
        /\ \E i \in DOMAIN attributes.data.variables :
               \E e \in EntriesOf(attributes.data.variables[i].meta) : BadEntry(e)) =>
        written.outcome = "ValueError"

\* C16 amended: such a save to a CDF file never returns; it raises
\* ValueError when the steps before the variables succeed (the file name is
\* read and every global attribute converted), and no None value is written
\* for a variable
C16_BadVariableAttributeRaises ==
    written # NotWritten =>
        /\ (\E i \in DOMAIN attributes.data.variables :
               \E e \in EntriesOf(attributes.data.variables[i].meta) : BadEntry(e)) =>
               /\ written.outcome # "returned"
               /\ (written.file.created /\ DOMAIN written.file.attrs =
                       {attributes.data.meta[j][1] : j \in DOMAIN attributes.data.meta}) =>
                       written.outcome = "ValueError"
        /\ \A i \in DOMAIN written.file.zvars :
               \A a \in DOMAIN written.file.zvars[i].attrs :
                   written.file.zvars[i].attrs[a] # None

\* a save that got to the variables and raised on a None value
C16_Witness ==
    /\ written # NotWritten
    /\ written.file.created
    /\ Len(written.file.zvars) = 2
    /\ Pair(None, "") \in EntriesOf(attributes.data.variables[2].meta)
    /\ written.outcome = "ValueError"

(***************************************************************************)
(* The validator (util/validation.py): validate(file_path) and the checks  *)
(* of CDFValidator, after section 4.5 of the specification and the cases   *)
(* of util/tests/test_validation.py.  A file is its kind, whether it can   *)
(* be opened, the names of its global attributes and its variables; an     *)
(* attribute a variable lacks has the value Absent.                        *)
(***************************************************************************)
Absent == "<absent>"

\* the required global attributes, in schema order; none has an alternate
RequiredGlobals == <<"Descriptor", "Mission_group">>

\* the rules of the variable attributes: the classes each applies to, its
\* alternate and its valid values (the empty set: any value)
VariableRules ==
    << [name |-> "CATDESC", classes |-> {"data", "support_data"}, required |-> TRUE,
        alternate |-> Absent, valid_values |-> {}],
       [name |-> "UNITS", classes |-> {"data"}, required |-> TRUE,
        alternate |-> "UNIT_PTR", valid_values |-> {}],
       [name |-> "DISPLAY_TYPE", classes |-> {"data"}, required |-> TRUE,
        alternate |-> Absent, valid_values |-> {"time_series", "spectrogram"}] >>

\* the representable range of the storage type of the variables (CDF_INT1)
TypeMin == -128

TypeMax == 127

\* a violation string: the check that wrote it, the variable and attribute
\* it names, and the detail it quotes
Violation(check, var, attr, detail) ==
    [check |-> check, var |-> var, attr |-> attr, detail |-> detail]

\* the storage type of the variables
VarType == "CDF_INT1"

\* a pair of bound attributes (VALIDMIN and VALIDMAX, or SCALEMIN and
\* SCALEMAX): the elements of each bound, one for a scalar, and its type
BoundsOf(lo, hi, loType, hiType) ==
    [has |-> TRUE, min |-> lo, max |-> hi, minType |-> loType, maxType |-> hiType]

NoBounds == [has |-> FALSE, min |-> <<0>>, max |-> <<0>>,
             minType |-> VarType, maxType |-> VarType]

\* scalar bounds of the type of the variable
Bounds(lo, hi) == BoundsOf(<<lo>>, <<hi>>, VarType, VarType)

NoFill == [has |-> FALSE, value |-> 0]

\* v.attrs["FILLVAL"] = x
Fill(x) == [has |-> TRUE, value |-> x]

\* the measurement of the file
Measurements ==
    { [name |-> "measurement", VAR_TYPE |-> vt, CATDESC |-> c, UNITS |-> un, UNIT_PTR |-> up,
       DISPLAY_TYPE |-> d, data |-> <<<<1, 2, 3>>>>, fill |-> NoFill, valid |-> v,
       scale |-> sc] :
        vt \in {Absent, "data"}, c \in {Absent, "Test Data"}, un \in {Absent, "m"},
        up \in {Absent, "units_var"}, d \in {Absent, "time_series", "bad_type"},
        v \in {NoBounds, Bounds(1, 3), Bounds(2, 2)},
        sc \in {NoBounds, Bounds(5, 3), Bounds(200, 3)} }

\* a support variable of the file
Supports ==
    { [name |-> "support", VAR_TYPE |-> vt, CATDESC |-> c, UNITS |-> Absent, UNIT_PTR |-> Absent,
       DISPLAY_TYPE |-> Absent, data |-> <<<<1>>>>, fill |-> NoFill, valid |-> v,
       scale |-> NoBounds] :
        vt \in {Absent, "support_data"}, c \in {Absent, "Test Support"},
        v \in {NoBounds, Bounds(5, 9)} }

\* the files handed to validate
Targets ==
    { [kind |-> "cdf", opens |-> TRUE, gattrs |-> g, variables |-> <<m, su>>] :
        g \in SUBSET {"Descriptor", "Mission_group"}, m \in Measurements, su \in Supports }
    \cup { [kind |-> k, opens |-> o, gattrs |-> {}, variables |-> <<>>] :
             k \in {"cdf", "rst"}, o \in BOOLEAN }

\* the value of an attribute of a variable
AttrOf(var, attr) ==
    CASE attr = "VAR_TYPE"     -> var.VAR_TYPE
      [] attr = "CATDESC"      -> var.CATDESC
      [] attr = "UNITS"        -> var.UNITS
      [] attr = "UNIT_PTR"     -> var.UNIT_PTR
      [] attr = "DISPLAY_TYPE" -> var.DISPLAY_TYPE
      [] OTHER                 -> Absent

\* a check that reports the first missing global attribute only
GlobalErrorsFirstOnly(global_attrs) ==
    LET missing == SelectSeq(RequiredGlobals, LAMBDA name : name \notin global_attrs)
    IN  IF missing = <<>> THEN <<>>
        ELSE <<Violation("required global", "", missing[1], "")>>

\* the violations of the required global attributes
GlobalErrors(global_attrs) ==
    LET missing == SelectSeq(RequiredGlobals, LAMBDA name : name \notin global_attrs)
    IN  [i \in DOMAIN missing |-> Violation("required global", "", missing[i], "")]

\* the violation of one rule for one variable, if any
RuleErrors(var, rule) ==
    IF ~rule.required \/ var.VAR_TYPE \notin rule.classes THEN <<>>
    ELSE IF AttrOf(var, rule.name) = Absent
         THEN IF rule.alternate = Absent
              THEN <<Violation("missing", var.name, rule.name, "")>>
              ELSE IF AttrOf(var, rule.alternate) = Absent
                   THEN <<Violation("missing", var.name, rule.name, rule.alternate)>>
                   ELSE <<>>
         ELSE IF rule.valid_values # {} /\ AttrOf(var, rule.name) \notin rule.valid_values
              THEN <<Violation("not valid option", var.name, rule.name, AttrOf(var, rule.name))>>
              ELSE <<>>

RECURSIVE RequiredErrors(_, _)
\* the loop over the rules
RequiredErrors(var, rules) ==
    IF rules = <<>> THEN <<>>
    ELSE RuleErrors(var, rules[1]) \o RequiredErrors(var, Tail(rules))

\* the size of the first data dimension of a variable: the number of
\* elements of one record
FirstDim(var) == Len(var.data[1])

\* the indices of the elements of a variable: record by record
Cells(var) ==
    [k \in 1..(Len(var.data) * FirstDim(var)) |->
        <<((k - 1) \div FirstDim(var)) + 1, ((k - 1) % FirstDim(var)) + 1>>]

\* the element of a bound an element of the c-th column is held against
BoundAt(bound, c) == IF Len(bound) = 1 THEN bound[1] ELSE bound[c]

\* the element equals the declared fill value of the variable
IsFill(var, x) == var.fill.has /\ x = var.fill.value

\* a bound type that can be compared with the type of the variables
Comparable(type) == type \in {"CDF_INT1", "CDF_INT2", "CDF_INT4"}

\* the preliminary checks of one bound: its type, then its element count
BoundShapeErrors(var, which, bound, type) ==
    IF ~Comparable(type)
    THEN <<Violation("not comparable", var.name, which, type)>>
    ELSE IF Len(bound) > 1 /\ Len(bound) # FirstDim(var)
         THEN <<Violation("element count", var.name, which, ToString(Len(bound)))>>
         ELSE <<>>

RECURSIVE ElementErrors(_, _, _, _)
\* the comparison of the elements with one bound, fill values left out
ElementErrors(var, which, bound, cells) ==
    IF cells = <<>> THEN <<>>
    ELSE LET x == var.data[cells[1][1]][cells[1][2]]
             b == BoundAt(bound, cells[1][2])
             out == IF which = "VALIDMIN" THEN x < b ELSE x > b
         IN  (IF out /\ ~IsFill(var, x)
              THEN <<Violation(IF which = "VALIDMIN" THEN "under VALIDMIN" ELSE "over VALIDMAX",
                               var.name, which, ToString(cells[1]))>>
              ELSE <<>>)
             \o ElementErrors(var, which, bound, Tail(cells))

\* a range check that holds fill values against the bounds too
RangeErrorsWithFill(var, which, bound, type) ==
    IF BoundShapeErrors(var, which, bound, type) # <<>>
    THEN BoundShapeErrors(var, which, bound, type)
    ELSE ElementErrors([var EXCEPT !.fill = NoFill], which, bound, Cells(var))

\* a range check that compares the elements with a bound of the wrong count
\* as well, as far as the bound goes
RangeErrorsComparingAnyway(var, which, bound, type) ==
    BoundShapeErrors(var, which, bound, type)
    \o (IF Comparable(type)
        THEN ElementErrors(var, which, bound,
                           SelectSeq(Cells(var), LAMBDA cell : cell[2] <= Len(bound)))
        ELSE <<>>)

\* the range check of one bound
RangeErrors(var, which, bound, type) ==
    IF BoundShapeErrors(var, which, bound, type) # <<>>
    THEN BoundShapeErrors(var, which, bound, type)
    ELSE ElementErrors(var, which, bound, Cells(var))

\* CDFValidator()._validrange(var): VALIDMIN, then VALIDMAX
_validrange(var) ==
    IF ~var.valid.has THEN <<>>
    ELSE RangeErrors(var, "VALIDMIN", var.valid.min, var.valid.minType)
         \o RangeErrors(var, "VALIDMAX", var.valid.max, var.valid.maxType)

\* some element of the bound is outside the range of the storage type
OutsideType(bound) == \E i \in DOMAIN bound : bound[i] < TypeMin \/ bound[i] > TypeMax

\* the scale check of one bound: its type and count, then the range of the
\* storage type
ScaleErrors(var, which, bound, type) ==
    IF BoundShapeErrors(var, which, bound, type) # <<>>
    THEN BoundShapeErrors(var, which, bound, type)
    ELSE IF OutsideType(bound)
         THEN <<Violation("outside valid data range", var.name, which, "")>>
         ELSE <<>>

\* some element of the minimum is greater than its element of the maximum
Misordered(lo, hi) ==
    \E i \in DOMAIN lo \cup DOMAIN hi :
        /\ Len(lo) = 1 \/ i <= Len(lo)
        /\ Len(hi) = 1 \/ i <= Len(hi)
        /\ BoundAt(lo, i) > BoundAt(hi, i)

\* a scale check that takes equal bounds for misordered ones
_validscaleNotLess(var) ==
    IF ~var.scale.has THEN <<>>
    ELSE ScaleErrors(var, "SCALEMIN", var.scale.min, var.scale.minType)
         \o ScaleErrors(var, "SCALEMAX", var.scale.max, var.scale.maxType)
         \o (IF var.scale.min[1] >= var.scale.max[1]
             THEN <<Violation("SCALEMIN > SCALEMAX", var.name, "SCALEMIN", "")>> ELSE <<>>)

\* CDFValidator()._validscale(var): the scale bounds against the range of the
\* type and against each other
_validscale(var) ==
    IF ~var.scale.has THEN <<>>
    ELSE ScaleErrors(var, "SCALEMIN", var.scale.min, var.scale.minType)
         \o ScaleErrors(var, "SCALEMAX", var.scale.max, var.scale.maxType)
         \o (IF Comparable(var.scale.minType) /\ Comparable(var.scale.maxType)
                 /\ Misordered(var.scale.min, var.scale.max)
             THEN <<Violation("SCALEMIN > SCALEMAX", var.name, "SCALEMIN", "")>> ELSE <<>>)

\* a validator whose first violation of a variable ends the checks of it
VariableErrorsFirstOnly(var) ==
    LET all == RequiredErrors(var, VariableRules) \o _validrange(var) \o _validscale(var)
    IN  IF var.VAR_TYPE = Absent
        THEN <<Violation("missing VAR_TYPE", var.name, "VAR_TYPE", "")>>
        ELSE IF all = <<>> THEN <<>> ELSE <<all[1]>>

\* the violations of one variable
VariableErrors(var) ==
    IF var.VAR_TYPE = Absent
    THEN <<Violation("missing VAR_TYPE", var.name, "VAR_TYPE", "")>>
    ELSE RequiredErrors(var, VariableRules) \o _validrange(var) \o _validscale(var)

\* a loop that ends at the first variable it cannot classify
RECURSIVE VariablesErrorsStopping(_)
VariablesErrorsStopping(variables) ==
    IF variables = <<>> THEN <<>>
    ELSE IF variables[1].VAR_TYPE = Absent THEN VariableErrors(variables[1])
    ELSE VariableErrors(variables[1]) \o VariablesErrorsStopping(Tail(variables))

RECURSIVE VariablesErrors(_)
\* the loop over the variables of the file
VariablesErrors(variables) ==
    IF variables = <<>> THEN <<>>
    ELSE VariableErrors(variables[1]) \o VariablesErrors(Tail(variables))

\* a validator that lets the failure to open the file through
CDFValidatorRaising(file) ==
    IF ~file.opens
    THEN [outcome |-> "CDFError", errors |-> <<>>]
    ELSE [outcome |-> "returned",
          errors |-> GlobalErrors(file.gattrs) \o VariablesErrors(file.variables)]

\* CDFValidator().validate(file_path)
CDFValidator(file) ==
    IF ~file.opens
    THEN [outcome |-> "returned", errors |-> <<Violation("could not open", "", "", "")>>]
    ELSE [outcome |-> "returned",
          errors |-> GlobalErrors(file.gattrs) \o VariablesErrors(file.variables)]

\* validate(file_path): the validator of the file's kind, a ValueError for a
\* kind that has none
validate(file) ==
    IF file.kind # "cdf" THEN [outcome |-> "ValueError", errors |-> <<>>]
    ELSE CDFValidator(file)

InitValidation ==
    /\ target \in Targets
    /\ report = NoReport
    /\ RoutineIdle /\ IoIdle /\ RangeIdle /\ RoundTripIdle /\ FilenameIdle /\ RepassIdle /\ ContainerIdle /\ DiskIdle /\ SearchIdle
    /\ MergeIdle
    /\ TypeIdle
    /\ SchemaIdle

\* result = validate(file_path); edit is the attribute added to the file
\* since the call before
Validate ==
    /\ (report = NoReport \/ report.edit # NoEdit)
    /\ LET r == validate(target)
       IN  report' = [outcome |-> r.outcome, errors |-> r.errors, edit |-> NoEdit,
                      before |-> report.errors]
    /\ UNCHANGED <<target, otherThanValidation>>

\* cdf.attrs[name] = value on a file validate has reported on
AddGlobalAttribute(name) ==
    /\ report # NoReport /\ report.outcome = "returned" /\ report.edit = NoEdit
    /\ target.opens
    /\ name \notin target.gattrs
    /\ target' = [target EXCEPT !.gattrs = @ \cup {name}]
    /\ report' = [report EXCEPT !.edit = [var |-> "", attr |-> name]]
    /\ UNCHANGED otherThanValidation

\* cdf[var].attrs[attr] = value, a value among the valid ones of the rule
AddVariableAttribute(i, attr, value) ==
    /\ report # NoReport /\ report.outcome = "returned" /\ report.edit = NoEdit
    /\ i \in DOMAIN target.variables
    /\ AttrOf(target.variables[i], attr) = Absent
    /\ target' = [target EXCEPT !.variables[i] =
                     CASE attr = "CATDESC"      -> [@ EXCEPT !.CATDESC = value]
                       [] attr = "DISPLAY_TYPE" -> [@ EXCEPT !.DISPLAY_TYPE = value]]
    /\ report' = [report EXCEPT !.edit = [var |-> target.variables[i].name, attr |-> attr]]
    /\ UNCHANGED otherThanValidation

NextValidation ==
    \/ Validate
    \/ \E name \in {"Descriptor", "Mission_group"} : AddGlobalAttribute(name)
    \/ \E i \in 1..2 : AddVariableAttribute(i, "CATDESC", "Test Data")
    \/ \E i \in 1..2 : AddVariableAttribute(i, "DISPLAY_TYPE", "time_series")

SpecValidation == InitValidation /\ [][NextValidation]_vars

\* the report is that of the file as it is now
Reported == report.outcome = "returned" /\ report.edit = NoEdit

\* the violations of the report that name a variable
ErrorsOf(name) == SelectSeq(report.errors, LAMBDA v : v.var = name)

\* the elements of a sequence
Elems(q) == {q[i] : i \in DOMAIN q}

\* C17: for a file of a supported kind that cannot be opened validate
\* returns a list of exactly one violation, which says so; it raises only
\* for a file of a kind it has no validator for
C17_UnopenableFileIsOneViolation ==
    report # NoReport =>
        /\ (target.kind = "cdf" /\ ~target.opens) =>
               /\ report.outcome = "returned"
               /\ Len(report.errors) = 1
               /\ report.errors[1].check = "could not open"
        /\ report.outcome # "returned" => target.kind # "cdf"

\* validate returned for a CDF file that cannot be opened
C17_Witness ==
    report.outcome = "returned" /\ target.kind = "cdf" /\ ~target.opens

\* the violations a variable that has a VAR_TYPE, one record, no fill value
\* and scalar bounds of its own type must be reported with
Defects(var) ==
    LET rules == {VariableRules[i] : i \in DOMAIN VariableRules}
        applicable == {r \in rules : r.required /\ var.VAR_TYPE \in r.classes}
    IN  {Violation("missing", var.name, r.name, r.alternate) :
            r \in {x \in applicable : /\ AttrOf(var, x.name) = Absent
                                      /\ x.alternate # Absent
                                      /\ AttrOf(var, x.alternate) = Absent}}
        \cup {Violation("missing", var.name, r.name, "") :
                r \in {x \in applicable : AttrOf(var, x.name) = Absent /\ x.alternate = Absent}}
        \cup {Violation("not valid option", var.name, r.name, AttrOf(var, r.name)) :
                r \in {x \in applicable : /\ AttrOf(var, x.name) # Absent
                                          /\ x.valid_values # {}
                                          /\ AttrOf(var, x.name) \notin x.valid_values}}
        \cup {Violation("under VALIDMIN", var.name, "VALIDMIN", ToString(<<1, i>>)) :
                i \in {j \in DOMAIN var.data[1] :
                          var.valid.has /\ var.data[1][j] < var.valid.min[1]}}
        \cup {Violation("over VALIDMAX", var.name, "VALIDMAX", ToString(<<1, i>>)) :
                i \in {j \in DOMAIN var.data[1] :
                          var.valid.has /\ var.data[1][j] > var.valid.max[1]}}
        \cup (IF var.scale.has /\ var.scale.min[1] > var.scale.max[1]
              THEN {Violation("SCALEMIN > SCALEMAX", var.name, "SCALEMIN", "")} ELSE {})
        \cup (IF var.scale.has /\ (var.scale.min[1] < TypeMin \/ var.scale.min[1] > TypeMax)
              THEN {Violation("outside valid data range", var.name, "SCALEMIN", "")} ELSE {})
        \cup (IF var.scale.has /\ (var.scale.max[1] < TypeMin \/ var.scale.max[1] > TypeMax)
              THEN {Violation("outside valid data range", var.name, "SCALEMAX", "")} ELSE {})

\* C18: a variable without VAR_TYPE gets exactly one violation, the missing
\* VAR_TYPE one, whatever else it lacks; the other variables are checked in
\* full
C18_MissingVarTypeSkipsOnlyThatVariable ==
    (Reported /\ target.opens) =>
        \A i \in DOMAIN target.variables :
            LET var == target.variables[i]
            IN  IF var.VAR_TYPE = Absent
                THEN ErrorsOf(var.name) = <<Violation("missing VAR_TYPE", var.name, "VAR_TYPE", "")>>
                ELSE Elems(ErrorsOf(var.name)) = Defects(var)

\* the first variable has no VAR_TYPE and lacks CATDESC too; the second has
\* a VAR_TYPE and was reported for what it lacks
C18_Witness ==
    /\ Reported /\ target.opens
    /\ Len(target.variables) = 2
    /\ target.variables[1].VAR_TYPE = Absent
    /\ target.variables[1].CATDESC = Absent
    /\ target.variables[2].VAR_TYPE # Absent
    /\ ErrorsOf(target.variables[2].name) # <<>>

\* the attribute added since the last report is required, without alternate,
\* for the file (var "") or for the class of the variable
RequiredNoAlternate(edit) ==
    \/ edit.var = ""
    \/ \E i \in DOMAIN target.variables :
          /\ target.variables[i].name = edit.var
          /\ \E k \in DOMAIN VariableRules :
                /\ VariableRules[k].name = edit.attr
                /\ VariableRules[k].required
                /\ VariableRules[k].alternate = Absent
                /\ target.variables[i].VAR_TYPE \in VariableRules[k].classes

\* the violation says that the attribute of the edit is missing
NamesMissing(v, edit) ==
    v.var = edit.var /\ v.attr = edit.attr /\ v.check \in {"missing", "required global"}

\* C19: the report of a file that lacks a required attribute X without
\* alternate holds a violation naming X; once X is added with a valid value
\* the next report is the former one without that violation
C19_AddedAttributeRemovesItsViolationOnly ==
    [][(report.edit # NoEdit /\ report'.edit = NoEdit /\ RequiredNoAlternate(report.edit))
        => /\ \E k \in DOMAIN report.errors : NamesMissing(report.errors[k], report.edit)
           /\ report'.errors =
                  SelectSeq(report.errors, LAMBDA v : ~NamesMissing(v, report.edit))]_vars

\* a second report that is the first one without one of its violations
C19_Witness ==
    /\ Reported
    /\ Len(report.before) > 1
    /\ Len(report.errors) = Len(report.before) - 1
    /\ \E k \in DOMAIN report.before :
           report.before[k].check = "missing" /\ report.before[k].attr = "CATDESC"

\* C20: the report holds every violation of the file: each missing required
\* global attribute and, for each variable that has a VAR_TYPE, each of its
\* missing attributes, invalid options, elements out of range and scale
\* problems
C20_EveryViolationReported ==
    (Reported /\ target.opens) =>
        /\ \A name \in Elems(RequiredGlobals) \ target.gattrs :
               Violation("required global", "", name, "") \in Elems(report.errors)
        /\ \A i \in DOMAIN target.variables :
               target.variables[i].VAR_TYPE # Absent =>
                   Defects(target.variables[i]) \subseteq Elems(report.errors)

\* a report with a missing global attribute and, on one variable, a missing
\* attribute, an invalid option, an element out of range and a scale problem
C20_Witness ==
    /\ Reported
    /\ \E v \in Elems(report.errors) : v.check = "required global"
    /\ \A c \in {"missing", "not valid option", "under VALIDMIN", "SCALEMIN > SCALEMAX"} :
           \E v \in Elems(report.errors) : v.check = c /\ v.var = "measurement"

(***************************************************************************)
(* The range and scale checks of the validator called on one variable, as  *)
(* the cases of util/tests/test_validation.py call them: a check, then an  *)
(* attribute of the variable set anew, then the check again.               *)
(***************************************************************************)
\* the records of the variable; one record for a variable that does not vary
RangeData ==
    { << <<1, 2, 3>> >>, << <<3, 3, 1>> >>,
      << <<1, 10>>, <<2, 20>>, <<3, 30>> >>,
      << <<-100, 10>>, <<2, 20>>, <<3, 30>> >> }

\* the values FILLVAL is set to
FillValues == {1, 3, 99, -100}

BoundTypes == {"CDF_INT1", "CDF_INT2", "CDF_CHAR"}

\* the VALIDMIN and VALIDMAX attributes of the variable
ValidBounds ==
    {NoBounds} \cup
    { BoundsOf(lo, hi, loType, hiType) :
        lo \in {<<1>>, <<2>>, <<1, 20>>, <<1, 10>>, <<1, 10, 100>>},
        hi \in {<<3>>, <<2>>, <<3, 30>>, <<2, 20>>, <<3, 30, 127>>},
        loType \in BoundTypes, hiType \in {"CDF_INT1", "CDF_CHAR"} }

\* the SCALEMIN and SCALEMAX attributes of the variable
ScaleBounds ==
    {NoBounds} \cup
    { Bounds(lo, hi) : lo \in {1, 5, -200, 200}, hi \in {3, -200, 200} } \cup
    { BoundsOf(<<2, 20>>, <<300, 320>>, VarType, VarType),
      BoundsOf(<<2, 20>>, <<30, 32>>, VarType, VarType),
      BoundsOf(<<20, 2>>, <<3, 30>>, VarType, VarType),
      BoundsOf(<<1, 10, 100>>, <<3, 30, 126>>, VarType, VarType),
      BoundsOf(<<5>>, <<3>>, "CDF_CHAR", VarType) }

\* v = cdf.new("var1", data=...) and the attributes set on it
ZVariables ==
    { [name |-> "var1", data |-> d, fill |-> f, valid |-> v, scale |-> NoBounds] :
        d \in RangeData, f \in {NoFill} \cup {Fill(x) : x \in FillValues}, v \in ValidBounds }
    \cup { [name |-> "var1", data |-> d, fill |-> NoFill, valid |-> NoBounds, scale |-> sc] :
             d \in RangeData, sc \in ScaleBounds }

InitRange ==
    /\ zvar \in ZVariables
    /\ errs = NoErrs
    /\ RoutineIdle /\ IoIdle /\ ValidationIdle /\ RoundTripIdle /\ FilenameIdle /\ RepassIdle /\ ContainerIdle /\ DiskIdle /\ SearchIdle
    /\ MergeIdle
    /\ TypeIdle
    /\ SchemaIdle

\* errs = CDFValidator()._validrange(v)
ValidRange ==
    /\ (errs = NoErrs \/ errs.stale)
    /\ errs' = [fn |-> "_validrange", errors |-> _validrange(zvar), stale |-> FALSE,
                before |-> errs.errors]
    /\ UNCHANGED <<zvar, otherThanRange>>

\* errs = CDFValidator()._validscale(v)
ValidScale ==
    /\ (errs = NoErrs \/ errs.stale)
    /\ errs' = [fn |-> "_validscale", errors |-> _validscale(zvar), stale |-> FALSE,
                before |-> errs.errors]
    /\ UNCHANGED <<zvar, otherThanRange>>

\* v.attrs["FILLVAL"] = x, after a range check
SetFillval(x) ==
    /\ errs.fn = "_validrange" /\ ~errs.stale
    /\ zvar.fill # Fill(x)
    /\ zvar' = [zvar EXCEPT !.fill = Fill(x)]
    /\ errs' = [errs EXCEPT !.stale = TRUE]
    /\ UNCHANGED otherThanRange

\* v.attrs["SCALEMIN"] = x, after a scale check of scalar bounds
SetScalemin(x) ==
    /\ errs.fn = "_validscale" /\ ~errs.stale
    /\ zvar.scale.has /\ Len(zvar.scale.min) = 1 /\ zvar.scale.min # <<x>>
    /\ zvar' = [zvar EXCEPT !.scale.min = <<x>>, !.scale.minType = VarType]
    /\ errs' = [errs EXCEPT !.stale = TRUE]
    /\ UNCHANGED otherThanRange

NextRange ==
    \/ ValidRange
    \/ ValidScale
    \/ \E x \in FillValues : SetFillval(x)
    \/ \E x \in {5, -200} : SetScalemin(x)

SpecRange == InitRange /\ [][NextRange]_vars

\* errs is what the check fn returned for the variable as it is now
Checked(fn) == errs.fn = fn /\ ~errs.stale

\* the bound can be held against the variable: its type is comparable and
\* it is a scalar or has one element for each element of a record
Applies(bound, type) ==
    Comparable(type) /\ (Len(bound) = 1 \/ Len(bound) = Len(zvar.data[1]))

\* the indices of the elements of the variable
Indices == {<<r, c>> : r \in DOMAIN zvar.data, c \in DOMAIN zvar.data[1]}

\* the element is under the minimum that applies to it
Under(cell) ==
    zvar.data[cell[1]][cell[2]] <
        (IF Len(zvar.valid.min) = 1 THEN zvar.valid.min[1] ELSE zvar.valid.min[cell[2]])

\* the element is over the maximum that applies to it
Over(cell) ==
    zvar.data[cell[1]][cell[2]] >
        (IF Len(zvar.valid.max) = 1 THEN zvar.valid.max[1] ELSE zvar.valid.max[cell[2]])

\* the element equals the FILLVAL of the variable
EqualsFill(cell) == zvar.fill.has /\ zvar.data[cell[1]][cell[2]] = zvar.fill.value

\* the indices reported as out of range by a violation of the check named
ReportedCells(q, check) ==
    {cell \in Indices : \E k \in DOMAIN q : q[k].check = check /\ q[k].detail = ToString(cell)}

ErrorsAbout(which) == SelectSeq(errs.errors, LAMBDA e : e.attr = which)

\* C22: in the range check, a bound of several elements whose count differs
\* from the size of the first data dimension gets exactly one violation,
\* the count mismatch, and no element is reported against it; this holds
\* of VALIDMIN and of VALIDMAX each on its own, the other bound being
\* checked as usual
C22_CountMismatchIsOneViolationPerBound ==
    (Checked("_validrange") /\ zvar.valid.has) =>
        /\ (/\ Comparable(zvar.valid.minType) /\ Len(zvar.valid.min) > 1
            /\ Len(zvar.valid.min) # Len(zvar.data[1])) =>
               /\ Len(ErrorsAbout("VALIDMIN")) = 1
               /\ ErrorsAbout("VALIDMIN")[1].check = "element count"
        /\ (/\ Comparable(zvar.valid.maxType) /\ Len(zvar.valid.max) > 1
            /\ Len(zvar.valid.max) # Len(zvar.data[1])) =>
               /\ Len(ErrorsAbout("VALIDMAX")) = 1
               /\ ErrorsAbout("VALIDMAX")[1].check = "element count"
        /\ Applies(zvar.valid.min, zvar.valid.minType) =>
               /\ ReportedCells(errs.errors, "under VALIDMIN")
                      = {cell \in Indices : Under(cell) /\ ~EqualsFill(cell)}
               /\ \A k \in DOMAIN ErrorsAbout("VALIDMIN") :
                      ErrorsAbout("VALIDMIN")[k].check = "under VALIDMIN"
        /\ Applies(zvar.valid.max, zvar.valid.maxType) =>
               /\ ReportedCells(errs.errors, "over VALIDMAX")
                      = {cell \in Indices : Over(cell) /\ ~EqualsFill(cell)}
               /\ \A k \in DOMAIN ErrorsAbout("VALIDMAX") :
                      ErrorsAbout("VALIDMAX")[k].check = "over VALIDMAX"

\* a variable of two columns with a VALIDMIN of three elements, whose first
\* elements are over elements of the data, and a VALIDMAX of two elements
\* that an element of the data is over
C22_Witness ==
    /\ Checked("_validrange") /\ zvar.valid.has
    /\ Len(zvar.data[1]) = 2
    /\ Comparable(zvar.valid.minType) /\ Len(zvar.valid.min) = 3
    /\ \E cell \in Indices : zvar.data[cell[1]][cell[2]] < zvar.valid.min[cell[2]]
    /\ Applies(zvar.valid.max, zvar.valid.maxType) /\ Len(zvar.valid.max) = 2
    /\ ReportedCells(errs.errors, "over VALIDMAX") # {}
    /\ Len(ErrorsAbout("VALIDMIN")) = 1

\* the report holds a violation of the check named about the bound named
Reports(check, which) ==
    \E k \in DOMAIN errs.errors : errs.errors[k].check = check /\ errs.errors[k].attr = which

\* the value is outside the range of the storage type of the variable
Unrepresentable(x) == x < TypeMin \/ x > TypeMax

\* C23: in the scale check of scalar bounds of a comparable type,
\* "SCALEMIN > SCALEMAX." is reported if and only if SCALEMIN is strictly
\* greater than SCALEMAX; each bound is reported as outside the valid data
\* range if and only if it is outside the range of the storage type,
\* whatever the data; when both bounds are representable and SCALEMIN is
\* greater than SCALEMAX the report is that one violation
C23_ScaleOrderingAndTypeRange ==
    (/\ Checked("_validscale") /\ zvar.scale.has
     /\ Len(zvar.scale.min) = 1 /\ Len(zvar.scale.max) = 1
     /\ Comparable(zvar.scale.minType) /\ Comparable(zvar.scale.maxType)) =>
        LET lo == zvar.scale.min[1]
            hi == zvar.scale.max[1]
        IN  /\ Reports("SCALEMIN > SCALEMAX", "SCALEMIN") <=> lo > hi
            /\ Reports("outside valid data range", "SCALEMIN") <=> Unrepresentable(lo)
            /\ Reports("outside valid data range", "SCALEMAX") <=> Unrepresentable(hi)
            /\ (lo > hi /\ ~Unrepresentable(lo) /\ ~Unrepresentable(hi)) =>
                   errs.errors = <<Violation("SCALEMIN > SCALEMAX", zvar.name, "SCALEMIN", "")>>

\* SCALEMIN = 5 and SCALEMAX = 3 on a variable whose data are all under 5
C23_Witness ==
    /\ Checked("_validscale") /\ zvar.scale.has
    /\ zvar.scale.min = <<5>> /\ zvar.scale.max = <<3>>
    /\ Comparable(zvar.scale.minType)
    /\ zvar.data = << <<1, 2, 3>> >>
    /\ Len(errs.errors) = 1

(***************************************************************************)
(* Save and load: the constructor of SWXData, SWXData.save, SWXData.load   *)
(* (swxdata.py) and CDFHandler.load_data (util/io.py).  A variable is its  *)
(* name, the structure that holds it, the shape of its array (the number   *)
(* of records first), its meta and, for a spectra variable, the cname of   *)
(* each axis of its coordinate system.  The meta a caller hands over is a  *)
(* dict of bare values or (value, comment) tuples; the meta a container    *)
(* holds is a dict of (value, comment) tuples.                             *)
(***************************************************************************)
\* SWXData.update_metadata_attributes(current_meta, new_meta)
update_metadata_attributes(current_meta, new_meta) ==
    [key \in DOMAIN current_meta \cup DOMAIN new_meta |->
        IF key \in DOMAIN new_meta
        THEN IF new_meta[key].form = "pair"
             THEN <<new_meta[key].value, new_meta[key].comment>>
             ELSE <<new_meta[key].value, "">>
        ELSE current_meta[key]]

\* an OrderedDict of (name, None) items as the dict update_metadata_attributes reads
TemplateMeta(tmpl) == [key \in Keys(tmpl) |-> Bare(None)]

\* the variable attribute rules of these containers: both required, none
\* derived
RoundTripVariableSchema ==
    << <<"CATDESC", Rule("CATDESC", TRUE, FALSE)>>, <<"VAR_TYPE", Rule("VAR_TYPE", TRUE, FALSE)>> >>

\* var_meta of the constructor: the template, then the meta of the variable
VariableMeta(vs, given) ==
    update_metadata_attributes(
        update_metadata_attributes(EmptyDict, TemplateMeta(measurement_attribute_template(vs))),
        given)

\* SWXData(timeseries, support, spectra, meta, schema, enable_derivations):
\* the metadata are compiled, then _derive_metadata runs, whose exception
\* leaves the constructor.  The variable rules derive nothing and there
\* are no default variable attributes, so the variable loops of
\* _derive_metadata change nothing.
SWXData(given, enable_derivations, gs, vs, dflt) ==
    LET _meta == update_metadata_attributes(EmptyDict, given.meta)
        variables == [i \in DOMAIN given.variables |->
                         [given.variables[i] EXCEPT !.meta = VariableMeta(vs, @)]]
        g == GlobalLoops(_meta, gs, dflt)
    IN  IF ~enable_derivations
        THEN [state |-> "built", meta |-> _meta, variables |-> variables]
        ELSE IF g.raised # "none"
             THEN [state |-> g.raised, meta |-> <<>>, variables |-> <<>>]
             ELSE [state |-> "built", meta |-> g.meta, variables |-> variables]

RECURSIVE PairItems(_)
\* meta.items() of a container: every entry is a (value, comment) tuple
PairItems(d) ==
    IF DOMAIN d = {} THEN <<>>
    ELSE LET k == CHOOSE x \in DOMAIN d : TRUE
         IN  <<<<k, Pair(d[k][1], d[k][2])>>>> \o PairItems([x \in DOMAIN d \ {k} |-> d[x]])

\* the container as save_data reads it
AsSaved(container) ==
    [meta |-> PairItems(container.meta),
     variables |-> [i \in DOMAIN container.variables |->
                       [container.variables[i] EXCEPT !.meta = PairItems(@)]]]

\* CDFHandler._load_metadata_attributes(var_data), and the loop over the
\* global attributes: each value with an empty comment
_load_metadata_attributes(attrs) == [a \in DOMAIN attrs |-> Pair(attrs[a], "")]

\* the strings astropy takes for a unit
IsUnit(str) == str \in {"", "m", "eV"}

\* the except branches of load_data: the units go to UNITS_DESC and the
\* variable becomes dimensionless
SwapUnits(var_attrs) ==
    [a \in DOMAIN var_attrs \cup {"UNITS_DESC"} |->
        CASE a = "UNITS_DESC" -> Pair(var_attrs["UNITS"], "")
          [] a = "UNITS"      -> Pair("", "")
          [] OTHER            -> var_attrs[a]]

\* int(naxis) of the WCSAXES attribute
AxisCountOf(str) == CASE str = "1" -> 1 [] str = "2" -> 2 [] OTHER -> 3

\* CDFHandler._get_world_coords(var_data, var_attrs, time), the cname of each
\* axis: the CNAMEi attribute, "NoName" when the variable has none
_get_world_coords(shape, var_attrs) ==
    LET naxis == IF "WCSAXES" \in DOMAIN var_attrs
                 THEN AxisCountOf(var_attrs["WCSAXES"].value) ELSE Len(shape)
    IN  [dimension_i \in 1..naxis |->
            LET dimension_attr_name == IF dimension_i = 1 THEN "CNAME1"
                                       ELSE IF dimension_i = 2 THEN "CNAME2" ELSE "CNAME3"
            IN  IF dimension_attr_name \in DOMAIN var_attrs
                THEN var_attrs[dimension_attr_name].value ELSE "NoName"]

\* the body of the loop of load_data over the variables other than Epoch;
\* records is len(ts["time"])
LoadVariable(z, records) ==
    LET var_attrs == _load_metadata_attributes(z.attrs)
        measured == z.rv /\ "UNITS" \in DOMAIN var_attrs /\ z.shape[1] = records
        attrs == IF measured /\ ~IsUnit(var_attrs["UNITS"].value)
                 THEN SwapUnits(var_attrs) ELSE var_attrs
        structure == IF ~measured THEN "support"
                     ELSE IF Len(z.shape) > 1 THEN "spectra" ELSE "timeseries"
    IN  [name |-> z.name, structure |-> structure, shape |-> z.shape, meta |-> attrs,
         wcs |-> IF structure = "spectra" THEN _get_world_coords(z.shape, attrs) ELSE <<>>]

\* CDFHandler.load_data(file_path) for a file that has an Epoch variable:
\* the arguments of the constructor
load_data(file) ==
    LET epoch == file.zvars[CHOOSE i \in DOMAIN file.zvars : file.zvars[i].name = "Epoch"]
        variable_keys == SelectSeq(file.zvars, LAMBDA z : z.name # "Epoch")
    IN  [meta |-> _load_metadata_attributes(file.attrs),
         variables |->
            <<[name |-> "time", structure |-> "timeseries", shape |-> epoch.shape,
               meta |-> _load_metadata_attributes(epoch.attrs), wcs |-> <<>>]>>
            \o [i \in DOMAIN variable_keys |-> LoadVariable(variable_keys[i], epoch.shape[1])]]

\* SWXData.load(file_path)
load(file, gs, vs, dflt) == SWXData(load_data(file), TRUE, gs, vs, dflt)

\* the meta a caller gives a variable: CATDESC and VAR_TYPE or not, and units
GivenMetas(catdescs, vartypes, units) ==
    { [a \in {x \in {"CATDESC", "VAR_TYPE", "UNITS"} :
                  CASE x = "CATDESC"  -> c # Absent
                    [] x = "VAR_TYPE" -> TRUE
                    [] x = "UNITS"    -> un # Absent} |->
         CASE a = "CATDESC"  -> Bare(c)
           [] a = "VAR_TYPE" -> vt
           [] a = "UNITS"    -> Bare(un)] :
        c \in catdescs, vt \in vartypes, un \in units }

\* the spectra variables: of two dimensions, of one, and of two with more
\* records than the time column; with the names of its axes in its meta or
\* not
GivenSpectra ==
    { [name |-> "spectra", structure |-> "spectra", shape |-> sh,
       wcs |-> [i \in DOMAIN sh |-> IF i = 1 THEN "time" ELSE ""],
       meta |-> [a \in {"CATDESC", "VAR_TYPE", "UNITS"}
                        \cup (IF named THEN {"CNAME1", "CNAME2"} ELSE {}) |->
                    CASE a = "CATDESC"  -> Bare("Spectra")
                      [] a = "VAR_TYPE" -> Bare("data")
                      [] a = "UNITS"    -> Bare("eV")
                      [] a = "CNAME1"   -> Bare("time")
                      [] a = "CNAME2"   -> Bare("")]] :
        sh \in {<<2, 3>>, <<2>>, <<3, 3>>}, named \in BOOLEAN }

\* the arguments of the constructor: the global meta, the time column, a
\* measurement, a support variable and at most one spectra variable
GivenContainers ==
    { [state |-> "arguments",
       meta |-> [a \in {"Logical_file_id"} \cup opt |->
                    CASE a = "Logical_file_id"         -> Bare("swxsoc_l1")
                      [] a = "Data_product_descriptor" -> Bare("v1")
                      [] a = "Test Null Attr"          -> Bare("")],
       variables |->
           <<[name |-> "time", structure |-> "timeseries", shape |-> <<2>>, wcs |-> <<>>,
              meta |-> [a \in {"CATDESC", "VAR_TYPE"} |->
                           IF a = "CATDESC" THEN Bare("Time") ELSE Bare("support_data")]],
             [name |-> "measurement", structure |-> "timeseries", shape |-> <<2>>,
              wcs |-> <<>>, meta |-> m],
             [name |-> "NRV_var", structure |-> "support", shape |-> <<1>>,
              wcs |-> <<>>, meta |-> su]>> \o sp] :
        opt \in SUBSET {"Data_product_descriptor", "Test Null Attr"},
        m \in GivenMetas({Absent, "Test Data"}, {Bare("data"), Pair("data", "class")},
                         {Absent, "m", "Not A Unit"}),
        su \in GivenMetas({"NRV Variable"}, {Bare("metadata")}, {Absent, "Not A Unit"}),
        sp \in {<<>>} \cup {<<c>> : c \in GivenSpectra} }

InitRoundTrip ==
    /\ original \in GivenContainers
    /\ cdf = NoCdf
    /\ reloaded = NoContainer
    /\ gschema \in {gs \in RuleTables(<<"Generation_date", "Data_type">>) :
                       \A i \in DOMAIN gs : gs[i][2].required}
    /\ vschema = RoundTripVariableSchema
    /\ defaults = [a \in {"Mission"} |-> <<"default", "">>]
    /\ template = NoTemplate /\ DeriveIdle
    /\ RoutineIdle /\ IoIdle /\ ValidationIdle /\ RangeIdle /\ FilenameIdle /\ RepassIdle /\ ContainerIdle /\ DiskIdle /\ SearchIdle
    /\ MergeIdle
    /\ TypeIdle

\* data = SWXData(timeseries, support, spectra, meta, enable_derivations=...)
Construct(enable_derivations) ==
    /\ original.state = "arguments"
    /\ original' = SWXData(original, enable_derivations, gschema, vschema, defaults)
    /\ UNCHANGED <<cdf, reloaded, otherThanRoundTrip>>

\* path = data.save(output_path)
SaveContainer ==
    /\ original.state = "built"
    /\ cdf = NoCdf
    /\ cdf' = save_data(AsSaved(original), FALSE)
    /\ UNCHANGED <<original, reloaded, otherThanRoundTrip>>

\* loaded_data = SWXData.load(path)
LoadContainer ==
    /\ cdf.outcome = "returned"
    /\ reloaded = NoContainer
    /\ reloaded' = load(cdf.file, gschema, vschema, defaults)
    /\ UNCHANGED <<original, cdf, otherThanRoundTrip>>

NextRoundTrip ==
    \/ \E enable_derivations \in BOOLEAN : Construct(enable_derivations)
    \/ SaveContainer
    \/ LoadContainer

SpecRoundTrip == InitRoundTrip /\ [][NextRoundTrip]_vars

\* the variables of a container that a structure holds
Held(container, structure) ==
    SelectSeq(container.variables, LAMBDA v : v.structure = structure)

\* the variable of the name in a container
Named(container, name) ==
    container.variables[CHOOSE i \in DOMAIN container.variables :
                            container.variables[i].name = name]

\* C24: a container that was saved and loaded again has as many time
\* series columns, support variables and global attributes as the
\* original; every variable of the original is in the same structure of
\* the reloaded one with the same VAR_TYPE and as many attributes; the
\* names of the axes of every spectra variable are as many and the same
C24_SaveLoadKeepsStructure ==
    reloaded # NoContainer =>
        /\ reloaded.state = "built"
        /\ \A structure \in {"timeseries", "support"} :
               Len(Held(reloaded, structure)) = Len(Held(original, structure))
        /\ Cardinality(DOMAIN reloaded.meta) = Cardinality(DOMAIN original.meta)
        /\ \A i \in DOMAIN original.variables :
               LET v == original.variables[i]
               IN  /\ \E k \in DOMAIN reloaded.variables : reloaded.variables[k].name = v.name
                   /\ Named(reloaded, v.name).structure = v.structure
                   /\ Named(reloaded, v.name).meta["VAR_TYPE"][1] = v.meta["VAR_TYPE"][1]
                   /\ Cardinality(DOMAIN Named(reloaded, v.name).meta)
                          = Cardinality(DOMAIN v.meta)
                   /\ v.structure = "spectra" => Named(reloaded, v.name).wcs = v.wcs

(***************************************************************************)
(* Science file names: create_science_filename and parse_science_filename  *)
(* (util/util.py).  A str is the sequence of its characters, so that       *)
(* split, replace, slicing and "in" are computed as Python computes them.  *)
(* An optional str of a parse result is <<>> for None and <<s>> for the    *)
(* str s.  A Time is its stamp to the second, as strftime(TIME_FORMAT)     *)
(* prints it, and the fraction of a second it carries beyond that.         *)
(***************************************************************************)
NoStr == <<>>

Str(s) == <<s>>

\* sub in s
Contains(s, sub) ==
    \E i \in 1..(Len(s) - Len(sub) + 1) : SubSeq(s, i, i + Len(sub) - 1) = sub

RECURSIVE replace(_, _, _)
\* s.replace(old, new), old not empty: the occurrences from the left, not overlapping
replace(s, old, new) ==
    IF Len(s) < Len(old) THEN s
    ELSE IF SubSeq(s, 1, Len(old)) = old
         THEN new \o replace(SubSeq(s, Len(old) + 1, Len(s)), old, new)
         ELSE <<s[1]>> \o replace(Tail(s), old, new)

RECURSIVE split(_, _)
\* s.split(sep) for a separator of one character
split(s, sep) ==
    IF \A i \in 1..Len(s) : s[i] # sep THEN <<s>>
    ELSE LET i == CHOOSE k \in 1..Len(s) : s[k] = sep /\ \A j \in 1..(k - 1) : s[j] # sep
         IN  <<SubSeq(s, 1, i - 1)>> \o split(SubSeq(s, i + 1, Len(s)), sep)

RECURSIVE lstrip(_, _)
\* s.lstrip(ch)
lstrip(s, ch) == IF s # <<>> /\ s[1] = ch THEN lstrip(Tail(s), ch) ELSE s

\* os.path.splitext: the name is cut before its last dot, if it has one
splitext(s) ==
    IF \A i \in 1..Len(s) : s[i] # "." THEN [root |-> s, ext |-> <<>>]
    ELSE LET i == CHOOSE k \in 1..Len(s) : s[k] = "." /\ \A j \in (k + 1)..Len(s) : s[j] # "."
         IN  [root |-> SubSeq(s, 1, i - 1), ext |-> SubSeq(s, i, Len(s))]

DigitChars == {"0", "1", "2", "3", "4", "5", "6", "7", "8", "9"}

\* int(s) returns: s is a run of digits
IsInteger(s) == s # <<>> /\ \A i \in 1..Len(s) : s[i] \in DigitChars

\* swxsoc.config["mission"]
mission_name == <<"s", "w", "x", "s", "o", "c">>

file_extension == <<".", "c", "d", "f">>

valid_data_levels ==
    << <<"r", "a", "w">>, <<"l", "0">>, <<"l", "1">>, <<"q", "l">>,
       <<"l", "2">>, <<"l", "3">>, <<"l", "4">> >>

inst_names == <<"spani", "nemisis">>

inst_shortnames == << <<"s", "p", "n">>, <<"n", "e", "m">> >>

inst_to_shortname == [n \in {"spani", "nemisis"} |->
    IF n = "spani" THEN inst_shortnames[1] ELSE inst_shortnames[2]]

InSeq(x, seq) == \E i \in 1..Len(seq) : seq[i] = x

\* _get_instrument_mapping(config)[shortname]; no instrument has extra names
_get_instrument_mapping(shortname) ==
    CHOOSE n \in DOMAIN inst_to_shortname : inst_to_shortname[n] = shortname

\* time.strftime(TIME_FORMAT)
strftime(time) == time.stamp

\* Time.strptime(s, TIME_FORMAT) returns: YYYYMMDDTHHMMSS
IsStamp(s) ==
    /\ Len(s) = 15
    /\ s[9] = "T"
    /\ \A i \in (1..15) \ {9} : s[i] \in DigitChars

strptime(s) == [stamp |-> s, fraction |-> 0]

create_science_filename(instrument, time, level, version, mode, descriptor, test) ==
    LET time_str == strftime(time)
        test_str == IF test THEN <<"t", "e", "s", "t">> ELSE <<>>
        parts    == split(version, ".")
        filename == mission_name \o <<"_">> \o inst_to_shortname[instrument]
                    \o <<"_">> \o mode \o <<"_">> \o level \o test_str
                    \o <<"_">> \o descriptor \o <<"_">> \o time_str
                    \o <<"_", "v">> \o version
    IN  IF ~InSeq(instrument, inst_names) THEN [outcome |-> "ValueError"]
        ELSE IF ~InSeq(level, valid_data_levels) THEN [outcome |-> "ValueError"]
        ELSE IF Len(parts) # 3 THEN [outcome |-> "ValueError"]
        ELSE IF \E i \in 1..3 : ~IsInteger(parts[i]) THEN [outcome |-> "ValueError"]
        ELSE IF Contains(mode, <<"_">>) \/ Contains(descriptor, <<"_">>)
             THEN [outcome |-> "ValueError"]
        ELSE [outcome |-> "returned",
              filename |-> replace(filename, <<"_", "_">>, <<"_">>) \o file_extension]

\* _parse_standard_format, for names of at least four components
_parse_standard_format(filename_components) ==
    LET n       == Len(filename_components)
        c       == filename_components
        tst     == <<"t", "e", "s", "t">>
        is_test == Contains(c[3], tst) \/ Contains(c[4], tst)
        optional ==
            IF ~InSeq(SubSeq(c[3], 1, IF Len(c[3]) < 2 THEN Len(c[3]) ELSE 2),
                      valid_data_levels)
            THEN [mode |-> Str(c[3]), level |-> Str(replace(c[4], tst, <<>>)),
                  descriptor |-> IF n = 7 THEN Str(c[5]) ELSE NoStr]
            ELSE [mode |-> NoStr, level |-> Str(replace(c[3], tst, <<>>)),
                  descriptor |-> IF n = 6 THEN Str(c[4]) ELSE NoStr]
    IN  IF c[1] # mission_name THEN [outcome |-> "ValueError"]
        ELSE IF ~InSeq(c[2], inst_shortnames) THEN [outcome |-> "ValueError"]
        ELSE IF ~IsStamp(c[n - 1]) THEN [outcome |-> "ValueError"]
        ELSE [outcome |-> "returned",
              result |-> [instrument |-> _get_instrument_mapping(c[2]),
                          mode |-> optional.mode, test |-> is_test,
                          time |-> strptime(c[n - 1]), level |-> optional.level,
                          version |-> Str(lstrip(c[n], "v")),
                          descriptor |-> optional.descriptor]]

\* parse_science_filename of a name that has the mission's file extension
parse_science_filename(filepath) ==
    LET file == splitext(filepath)
    IN  _parse_standard_format(split(file.root, "_"))

Stamps ==
    { <<"2", "0", "2", "4", "0", "4", "0", "6", "T", "1", "2", "0", "6", "2", "1">> }

Fractions == {0, 5}

Times == [stamp : Stamps, fraction : Fractions]

InstrumentArgs == {"spani", "nemisis", "xrt"}

LevelArgs == {valid_data_levels[i] : i \in 1..Len(valid_data_levels)} \cup {<<"l", "9">>}

VersionArgs ==
    { <<"1", ".", "2", ".", "3">>, <<"1", "0", ".", "0", ".", "7">>,
      <<"1", ".", "2">>, <<"1", ".", "x", ".", "3">> }

ModeArgs == { <<>>, <<"2", "s">>, <<"l", "2", "x">>, <<"a", "_", "b">> }

DescriptorArgs == { <<>>, <<"b", "u", "r", "s", "t">>, <<"r", "e", "t", "e", "s", "t">> }

InitFilename ==
    /\ MergeIdle /\ TypeIdle /\ SchemaIdle
    /\ RoutineIdle /\ IoIdle /\ ValidationIdle /\ RangeIdle /\ RoundTripIdle /\ RepassIdle /\ ContainerIdle /\ DiskIdle /\ SearchIdle
    /\ fields = NoFields
    /\ parsed = NoParse

CreateScienceFilename(instrument, time, level, version, mode, descriptor, test) ==
    /\ fields = NoFields
    /\ fields' = [instrument |-> instrument, time |-> time, level |-> level,
                  version |-> version, mode |-> mode, descriptor |-> descriptor,
                  test |-> test, outcome |-> "called",
                  created |-> create_science_filename(instrument, time, level,
                                  version, mode, descriptor, test)]
    /\ UNCHANGED <<parsed, otherThanFilename>>

ParseScienceFilename ==
    /\ fields # NoFields
    /\ fields.created.outcome = "returned"
    /\ parsed = NoParse
    /\ parsed' = parse_science_filename(fields.created.filename)
    /\ UNCHANGED <<fields, otherThanFilename>>

NextFilename ==
    \/ \E instrument \in InstrumentArgs, time \in Times, level \in LevelArgs,
          version \in VersionArgs, mode \in ModeArgs,
          descriptor \in DescriptorArgs, test \in BOOLEAN :
           CreateScienceFilename(instrument, time, level, version, mode,
                                 descriptor, test)
    \/ ParseScienceFilename

SpecFilename == InitFilename /\ [][NextFilename]_vars

\* the optional str an argument stands for: None where it is empty
Given(s) == IF s = <<>> THEN NoStr ELSE Str(s)

\* C25: the parse of a created name returns exactly the arguments of the
\* creation: instrument, level, version, time and test flag, and mode and
\* descriptor with None for an empty one.
C25_ParseReturnsTheArguments ==
    parsed # NoParse =>
        /\ parsed.outcome = "returned"
        /\ parsed.result = [instrument |-> fields.instrument,
                            mode |-> Given(fields.mode), test |-> fields.test,
                            time |-> fields.time, level |-> Str(fields.level),
                            version |-> Str(fields.version),
                            descriptor |-> Given(fields.descriptor)]

(***************************************************************************)
(* The derivation pass run again: SWXData._derive_metadata on a container  *)
(* that a first pass has left.  The rules carry the overwrite flag, the    *)
(* logical source is built from Data_type when it is missing, and the      *)
(* spectra variable names its axes with two characters, the one length of  *)
(* str the loops of _derive_metadata unpack.                               *)
(***************************************************************************)
MaxPasses == 2

RepassRuleNames == <<"Logical_source", "Data_type">>

\* every rule table over the names: each rule derived and overwriting or not
OverwriteTables(names) ==
    {[i \in DOMAIN names |->
        <<names[i], [Rule(names[i], TRUE, f[i][1]) EXCEPT !.overwrite = f[i][2]]>>] :
        f \in [DOMAIN names -> BOOLEAN \X BOOLEAN]}

\* the global meta when the first pass starts: Logical_source and Data_type
\* given or not, Mission given with another value than the default
RepassMetas ==
    {[a \in S |-> <<"v1", "given">>] : S \in SUBSET {"Logical_source", "Data_type", "Mission"}}

\* the rule of the axis names, overwriting or not
NameRules(overwrite) ==
    << <<CNAMEi, [derived |-> TRUE, iterable |-> TRUE, overwrite |-> overwrite,
                  derivation_fn |-> "_get_cnamei"]>> >>

\* a variable of n axes named "t1" .. "tn", with the meta vm
ShortNamed(n, vm) ==
    [naxis |-> n,
     wcs |-> [prop \in WcsProps |->
                [i \in 1..n |->
                    IF prop = "cname"
                    THEN [set |-> TRUE, v |-> PyStr(<<"t", ToString(i)>>)]
                    ELSE AxisValue(prop, FALSE)]],
     meta |-> vm]

\* the variable's meta: nothing, or a name given for its first axis
RepassVarMetas ==
    {[x \in {} |-> PyNum(0)],
     [x \in {<<"C", "N", "A", "M", "E", "1">>} |->
         PyTuple(PyStr(<<"g", "i", "v", "e", "n">>), PyStr(<<>>))]}

RepassCubes ==
    {NoCube} \cup {ShortNamed(n, vm) : n \in 1..MaxAxes, vm \in RepassVarMetas}
             \cup {c \in Cubes : c.naxis = 1 /\ DOMAIN c.meta = {}}

InitRepass ==
    /\ gschema \in OverwriteTables(RepassRuleNames)
    /\ vschema \in {NameRules(o) : o \in BOOLEAN}
    /\ defaults = [a \in {"Mission"} |-> <<"default", "">>]
    /\ meta \in RepassMetas
    /\ cube \in RepassCubes
    /\ template = NoTemplate
    /\ gattrs = NotDerived /\ mattrs = NotDerived /\ raised = NotCalled
    /\ varMeta = EmptyDict /\ last = NoCall /\ nops = 0
    /\ meta2 = EmptyDict /\ varMeta2 = EmptyDict /\ dec = NoDecision
    /\ TypeIdle
    /\ RoutineIdle /\ IoIdle /\ ValidationIdle /\ RangeIdle /\ RoundTripIdle /\ ContainerIdle /\ DiskIdle /\ SearchIdle
    /\ FilenameIdle
    /\ passes = 0
    /\ previous = NoPrevious

\* SWXData._derive_metadata() called again on the container a pass that
\* returned has left, nothing else having touched it
DeriveMetadataAgain ==
    /\ raised # NotCalled
    /\ raised.exc = "none"
    /\ passes < MaxPasses
    /\ LET r == _derive_metadata(meta, cube, gschema, vschema, defaults)
       IN  /\ meta' = r.meta
           /\ raised' = r.raised
           /\ cube' = r.cube
    /\ previous' = [meta |-> meta, cube |-> cube]
    /\ passes' = passes + 1
    /\ UNCHANGED <<gschema, vschema, defaults, template, gattrs, mattrs,
                   varMeta, last, nops, meta2, varMeta2, dec, typeVars,
                   routineVars, ioVars, validationVars, rangeVars,
                   roundTripVars, filenameVars, containerVars, diskVars, searchVars>>

NextRepass == DeriveMetadata \/ DeriveMetadataAgain

SpecRepass == InitRepass /\ [][NextRepass]_vars

VariableNames == {"test"}

\* what a caller hands to an add method: two Quantity objects with a unit
\* and one dimension, one without unit, one of two dimensions, an NDCube
\* (which is an NDData) and a list
Objects ==
    {[id |-> "q1", type |-> "Quantity", unit |-> TRUE, ndim |-> 1],
     [id |-> "q2", type |-> "Quantity", unit |-> TRUE, ndim |-> 1],
     [id |-> "q3", type |-> "Quantity", unit |-> FALSE, ndim |-> 1],
     [id |-> "q4", type |-> "Quantity", unit |-> TRUE, ndim |-> 2],
     [id |-> "c1", type |-> "NDCube", unit |-> TRUE, ndim |-> 2],
     [id |-> "l1", type |-> "list", unit |-> FALSE, ndim |-> 1]}

\* the rule tables of the container's schema: the generation date derived
\* or not
ContainerRuleTables ==
    {<< <<"Generation_date", Rule("Generation_date", TRUE, d)>> >> : d \in BOOLEAN}

\* d[key] = value
Put(d, key, value) == [k \in DOMAIN d \cup {key} |-> IF k = key THEN value ELSE d[k]]

\* d.pop(key)
Pop(d, key) == [k \in DOMAIN d \ {key} |-> d[k]]

\* the variable stored: the object and the meta compiled for it
Stored(object, vs) == [data |-> object.id, meta |-> VariableMeta(vs, EmptyDict)]

\* container[var_name]
__getitem__(c, var_name) ==
    IF var_name \in DOMAIN c.timeseries
    THEN [outcome |-> "returned", data |-> c.timeseries[var_name].data]
    ELSE IF var_name \in DOMAIN c.support
    THEN [outcome |-> "returned", data |-> c.support[var_name].data]
    ELSE IF var_name \in DOMAIN c.spectra
    THEN [outcome |-> "returned", data |-> c.spectra[var_name].data]
    ELSE [outcome |-> "KeyError", data |-> ""]

\* the end of each add method: self._derive_metadata() on the container that
\* already holds the variable
Derived(c, gs, dflt) ==
    LET g == GlobalLoops(c.meta, gs, dflt)
    IN  [container |-> [c EXCEPT !.meta = g.meta], outcome |-> IF g.raised = "none" THEN "returned" ELSE g.raised]

add_measurement(c, measure_name, object, gs, vs, dflt) ==
    IF object.type # "Quantity" \/ ~object.unit THEN [container |-> c, outcome |-> "TypeError"]
    ELSE IF object.ndim > 1 THEN [container |-> c, outcome |-> "ValueError"]
    ELSE Derived([c EXCEPT !.timeseries = Put(@, measure_name, Stored(object, vs))], gs, dflt)

add_support(c, name, object, gs, vs, dflt) ==
    IF object.type \notin {"Quantity", "NDData", "NDCube"}
    THEN [container |-> c, outcome |-> "TypeError"]
    ELSE Derived([c EXCEPT !.support = Put(@, name, Stored(object, vs))], gs, dflt)

add_spectra(c, name, object, gs, vs, dflt) ==
    IF object.type # "NDCube" THEN [container |-> c, outcome |-> "TypeError"]
    ELSE Derived([c EXCEPT !.spectra = Put(@, name, Stored(object, vs))], gs, dflt)

remove(c, measure_name) ==
    IF measure_name \in DOMAIN c.timeseries
    THEN [container |-> [c EXCEPT !.timeseries = Pop(@, measure_name)], outcome |-> "returned"]
    ELSE IF measure_name \in DOMAIN c.support
    THEN [container |-> [c EXCEPT !.support = Pop(@, measure_name)], outcome |-> "returned"]
    ELSE IF measure_name \in DOMAIN c.spectra
    THEN [container |-> [c EXCEPT !.spectra = Pop(@, measure_name)], outcome |-> "returned"]
    ELSE [container |-> c, outcome |-> "ValueError"]

\* SWXData(timeseries, meta=..., enable_derivations=...) for a time series
\* of its time column alone
EmptyContainer(enable_derivations, gs, vs, dflt) ==
    LET c == [timeseries |-> [n \in {"time"} |-> [data |-> "t", meta |-> VariableMeta(vs, EmptyDict)]],
              support |-> EmptyDict, spectra |-> EmptyDict, meta |-> EmptyDict]
    IN  IF enable_derivations THEN Derived(c, gs, dflt)
        ELSE [container |-> c, outcome |-> "returned"]

InitContainer ==
    /\ gschema \in ContainerRuleTables
    /\ vschema = RoundTripVariableSchema
    /\ defaults = [a \in {"Mission"} |-> <<"default", "">>]
    /\ template = NoTemplate /\ DeriveIdle
    /\ MergeIdle /\ TypeIdle
    /\ RoutineIdle /\ IoIdle /\ ValidationIdle /\ RangeIdle /\ RoundTripIdle /\ DiskIdle /\ SearchIdle
    /\ FilenameIdle /\ RepassIdle
    /\ \E enable_derivations \in BOOLEAN :
          LET built == EmptyContainer(enable_derivations, gschema, vschema, defaults)
          IN  built.outcome = "returned" /\ swxdata = built.container
    /\ call = NoMethod

Called(op, name, object, result) ==
    /\ swxdata' = result.container
    /\ call' = [op |-> op, name |-> name, data |-> object.id, outcome |-> result.outcome,
                before |-> swxdata]
    /\ UNCHANGED otherThanContainer

AddMeasurement(measure_name, object) ==
    Called("add_measurement", measure_name, object,
           add_measurement(swxdata, measure_name, object, gschema, vschema, defaults))

AddSupport(name, object) ==
    Called("add_support", name, object,
           add_support(swxdata, name, object, gschema, vschema, defaults))

AddSpectra(name, object) ==
    Called("add_spectra", name, object,
           add_spectra(swxdata, name, object, gschema, vschema, defaults))

Remove(measure_name) ==
    Called("remove", measure_name, [id |-> ""], remove(swxdata, measure_name))

NextContainer ==
    \/ \E name \in VariableNames, object \in Objects : AddMeasurement(name, object)
    \/ \E name \in VariableNames, object \in Objects : AddSupport(name, object)
    \/ \E name \in VariableNames, object \in Objects : AddSpectra(name, object)
    \/ \E name \in VariableNames : Remove(name)

SpecContainer == InitContainer /\ [][NextContainer]_vars

AddMethods == {"add_measurement", "add_support", "add_spectra"}

\* the structures that hold a name
Holding(c, name) ==
    {s \in {"timeseries", "support", "spectra"} : name \in DOMAIN c[s]}

\* C27: every name is in at most one of the three structures; after an add
\* that returned, container[name] is the object that call was given, and
\* after a remove that returned, container[name] raises KeyError.
C27_NameInOneStructure ==
    /\ \A name \in VariableNames : Cardinality(Holding(swxdata, name)) <= 1
    /\ call.op \in AddMethods /\ call.outcome = "returned" =>
          __getitem__(swxdata, call.name) = [outcome |-> "returned", data |-> call.data]
    /\ call.op = "remove" /\ call.outcome = "returned" =>
          __getitem__(swxdata, call.name).outcome = "KeyError"

\* C28: an add method that raises leaves the variables and the metadata of
\* the container as it found them.
C28_RaisingAddChangesNothing ==
    call.op \in AddMethods /\ call.outcome # "returned" => swxdata = call.before

(***************************************************************************)
(* Saving over a file: CDFHandler.save_data (io.py) called again for the   *)
(* same directory and the same Logical_file_id.  The file of an earlier    *)
(* save is at the path; pycdf's CDF(path, masterpath="") refuses to create *)
(* a file that exists, and the with statement closes the file it opened    *)
(* on every way out.                                                       *)
(***************************************************************************)
MaxSaves == 3

\* the containers saved here: one Logical_file_id, so one path
DiskContainers ==
    { [meta |-> << <<"Logical_file_id", Pair("val", "")>>, <<"Mission", e>> >>,
       variables |-> << [name |-> "time", structure |-> "timeseries", shape |-> <<2>>,
                         meta |-> << <<"CATDESC", Pair("val", "")>> >>],
                        [name |-> "flux", structure |-> "timeseries", shape |-> <<2>>,
                         meta |-> << <<"CATDESC", Pair("val", "")>>, <<"UNITS", f>> >>] >>] :
        e \in {Pair("val", ""), Pair("new", ""), Pair("old", ""), Pair(None, "")},
        f \in {Pair("val", ""), Pair(None, ""), Bare("val")} }

\* save_data(data, file_path, overwrite) into a directory where the file
\* existing is at the path (NoFile when there is none): the file afterwards,
\* and whether a CDF was opened and closed
save_data_over(existing, container, overwrite) ==
    LET found   == Lookup(container.meta, "Logical_file_id")
        id      == UnpackEntry(found.contents)
        \* cdf_file_path.unlink()
        present == IF overwrite THEN NoFile ELSE existing
        fresh   == save_data(container, overwrite)
    IN  IF found.raised # "none" \/ id.raised # "none" \/ (overwrite /\ id.value = None)
        THEN [outcome |-> fresh.outcome, file |-> existing, handle |-> "not opened"]
        ELSE IF present.created
        THEN [outcome |-> "CDFError", file |-> present, handle |-> "not opened"]
        ELSE [outcome |-> fresh.outcome, file |-> fresh.file, handle |-> "closed"]

InitDisk ==
    /\ MergeIdle /\ TypeIdle /\ SchemaIdle
    /\ RoutineIdle /\ IoIdle /\ ValidationIdle /\ RangeIdle /\ RoundTripIdle /\ SearchIdle
    /\ FilenameIdle /\ RepassIdle /\ ContainerIdle
    /\ disk = NoFile
    /\ saved = NotSaved

\* data.save(output_path, overwrite)
SaveOver(container, overwrite) ==
    /\ saved.nsaves < MaxSaves
    /\ LET r == save_data_over(disk, container, overwrite)
       IN  /\ disk' = r.file
           /\ saved' = [outcome |-> r.outcome, nsaves |-> saved.nsaves + 1,
                        overwrite |-> overwrite, handle |-> r.handle, before |-> disk]
    /\ UNCHANGED otherThanDisk

NextDisk == \E container \in DiskContainers, overwrite \in BOOLEAN : SaveOver(container, overwrite)

SpecDisk == InitDisk /\ [][NextDisk]_vars

\* C29: a save that raises leaves the file that was at the path as it was,
\* with overwrite set or not, and leaves no file open.
C29_RaisingSaveKeepsTheFile ==
    (saved.outcome \notin {"not called", "returned"} /\ saved.before.created) =>
        /\ disk = saved.before
        /\ saved.handle # "open"

(***************************************************************************)
(* Searching by time: S3DataClient.generate_prefixes and the filter of     *)
(* S3DataClient._make_search (data_access.py).  A datetime is its year,    *)
(* month, day and hour; a prefix "{level}/{YYYY}/{MM}/" is the triple of   *)
(* its parts, and a key starts with it when its first three parts are      *)
(* those.                                                                  *)
(***************************************************************************)
IsLeap(year) == year % 4 = 0 /\ (year % 100 # 0 \/ year % 400 = 0)

DaysIn(year, month) ==
    CASE month = 2              -> IF IsLeap(year) THEN 29 ELSE 28
      [] month \in {4, 6, 9, 11} -> 30
      [] OTHER                  -> 31

\* a <= b for datetimes
NotAfter(a, b) ==
    \/ a.year < b.year
    \/ a.year = b.year /\ a.month < b.month
    \/ a.year = b.year /\ a.month = b.month /\ a.day < b.day
    \/ a.year = b.year /\ a.month = b.month /\ a.day = b.day /\ a.hour <= b.hour

\* t + relativedelta(months=1): the next month, the day cut to its length
PlusOneMonth(t) ==
    LET year  == IF t.month = 12 THEN t.year + 1 ELSE t.year
        month == IF t.month = 12 THEN 1 ELSE t.month + 1
    IN  [t EXCEPT !.year = year, !.month = month,
                  !.day = IF t.day > DaysIn(year, month) THEN DaysIn(year, month) ELSE t.day]

\* for level in levels: prefixes.append(f"{level}/{year}/{month:02d}/")
RECURSIVE AppendLevels(_, _, _)
AppendLevels(prefixes, levels, current_time) ==
    IF levels = <<>> THEN prefixes
    ELSE AppendLevels(Append(prefixes, <<levels[1], current_time.year, current_time.month>>),
                      Tail(levels), current_time)

RECURSIVE PrefixLoop(_, _, _, _)
\* while current_time <= end_time
PrefixLoop(levels, current_time, end_time, prefixes) ==
    IF NotAfter(current_time, end_time)
    THEN PrefixLoop(levels, PlusOneMonth(current_time), end_time,
                    AppendLevels(prefixes, levels, current_time))
    ELSE prefixes

\* the debug line after the inner loop reads prefix, which no iteration has
\* bound when levels is empty: UnboundLocalError in the first turn
generate_prefixes(levels, start_time, end_time) ==
    IF levels = <<>> /\ NotAfter(start_time, end_time)
    THEN [raised |-> "UnboundLocalError", prefixes |-> <<>>]
    ELSE [raised |-> "none", prefixes |-> PrefixLoop(levels, start_time, end_time, <<>>)]

\* the months the searches cover: December 2023 to March 2024
SearchMonths == {<<2023, 12>>, <<2024, 1>>, <<2024, 2>>, <<2024, 3>>}

SearchDays == {1, 20, 31}

SearchHours == {0, 12}

Datetimes ==
    {[year |-> ym[1], month |-> ym[2], day |-> d, hour |-> h] :
        ym \in SearchMonths, d \in {x \in SearchDays : x <= 31}, h \in SearchHours}

ValidDatetimes == {t \in Datetimes : t.day <= DaysIn(t.year, t.month)}

LevelLists == {<<>>, <<"l0">>, <<"l1", "l2">>}

\* files_in_s3: one file under every level and month
FilesInS3 ==
    {[Key |-> <<level, ym[1], ym[2], "file">>] :
        level \in {"l0", "l1", "l2"}, ym \in SearchMonths}

\* f["Key"].startswith(prefix)
StartsWith(key, prefix) == SubSeq(key, 1, 3) = prefix

InitSearch ==
    /\ MergeIdle /\ TypeIdle /\ SchemaIdle
    /\ RoutineIdle /\ IoIdle /\ ValidationIdle /\ RangeIdle /\ RoundTripIdle
    /\ FilenameIdle /\ RepassIdle /\ ContainerIdle /\ DiskIdle
    /\ query = NoQuery
    /\ listing = NoSearch

\* S3DataClient.generate_prefixes(levels, start_time, end_time)
GeneratePrefixes(levels, start_time, end_time) ==
    /\ listing.state = "not called"
    /\ NotAfter(start_time, end_time)
    /\ query' = [levels |-> levels, start_time |-> start_time, end_time |-> end_time]
    /\ LET r == generate_prefixes(levels, start_time, end_time)
       IN  listing' = [state |-> IF r.raised = "none" THEN "generated" ELSE r.raised,
                       prefixes |-> r.prefixes,
                       files |-> {}]
    /\ UNCHANGED otherThanSearch

\* the filter of _make_search: the files whose key starts with a prefix
FilterFiles ==
    /\ listing.state = "generated"
    /\ listing' = [listing EXCEPT !.state = "filtered",
                    !.files = {f \in FilesInS3 :
                                  \E i \in DOMAIN listing.prefixes :
                                      StartsWith(f.Key, listing.prefixes[i])}]
    /\ UNCHANGED <<query, otherThanSearch>>

NextSearch ==
    \/ \E levels \in LevelLists, start_time \in ValidDatetimes, end_time \in ValidDatetimes :
           GeneratePrefixes(levels, start_time, end_time)
    \/ FilterFiles

SpecSearch == InitSearch /\ [][NextSearch]_vars

\* the month ym holds an instant of [start_time, end_time]
InRange(ym, start_time, end_time) ==
    /\ start_time.year < ym[1] \/ (start_time.year = ym[1] /\ start_time.month <= ym[2])
    /\ ym[1] < end_time.year \/ (ym[1] = end_time.year /\ ym[2] <= end_time.month)

\* C30: generate_prefixes returns, the prefixes returned hold the prefix of
\* every level and every month that has an instant in [start_time, end_time],
\* and the filter keeps every file stored under such a month and level.
C30_PrefixOfEveryMonthInRange ==
    /\ listing.state \in {"not called", "generated", "filtered"}
    /\ listing.state # "not called" =>
          \A i \in DOMAIN query.levels, ym \in SearchMonths :
              InRange(ym, query.start_time, query.end_time) =>
                  \E k \in DOMAIN listing.prefixes :
                      listing.prefixes[k] = <<query.levels[i], ym[1], ym[2]>>
    /\ listing.state = "filtered" =>
          \A f \in FilesInS3 :
              (/\ \E i \in DOMAIN query.levels : query.levels[i] = f.Key[1]
               /\ InRange(<<f.Key[2], f.Key[3]>>, query.start_time, query.end_time))
                  => f \in listing.files

====
